---- MODULE Spec2Model ----
(***************************************************************************)
(* Workflow supervision and recovery core of agentic-coder.                *)
(*                                                                         *)
(*   - RecoveryLoop and CircuitBreakerState        (recovery_loop.py)      *)
(*   - LangGraphSupervisorAgent and WorkflowGraph  (langgraph_supervisor.py)*)
(*   - SupervisorAgent                             (supervisor_agent.py)   *)
(*   - StuckIssueDetector and StuckIssueRecovery   (stuck_issue_detector.py)*)
(*   - MessageBus               (src/agent_communication/message_bus.py)   *)
(*   - LangGraphSupervisorWithStuckDetection                               *)
(*                         (langgraph_supervisor_with_stuck_detection.py)  *)
(*                                                                         *)
(* Time is a discrete clock `now` (seconds, as datetime.now() is read by   *)
(* the breaker); it advances by Tick between any two steps.  A call of the *)
(* coroutine execute_with_recovery is a sequence of steps, cut where the   *)
(* coroutine awaits: Call runs it up to its first try, and each Attempt is *)
(* one try (the sleep before it, the invocation of the step function and   *)
(* all that follows up to the next try or the return).                     *)
(*                                                                         *)
(* The specifications share the variables:                                 *)
(*   Spec              the recovery loop and its circuit breakers          *)
(*   SpecBackoff       the retry schedule of a step that fails on every try*)
(*   SpecBreakers      the recovery loop with two step names               *)
(*   SpecWorkflow      run_workflow on a constructed supervisor            *)
(*   SpecWorkflowFair  run_workflow, a started run going on                *)
(*   SpecSupervisor    SupervisorAgent.run_workflow and its escalation     *)
(*   SpecEscalation    the escalation of both supervisors                  *)
(*   SpecGuards        evaluate_condition and get_next_nodes at rest       *)
(*   SpecDetector      the stuck issue detector and its monitoring loop    *)
(*   SpecBus           the message bus and its worker                      *)
(*   SpecWorkflowOrder   two runs of one supervisor on the same input      *)
(*   SpecDetectorThreads the monitoring thread interleaved with the clients*)
(*   SpecStuckDetection  the supervisor with stuck detection               *)
(***************************************************************************)
EXTENDS Integers, Sequences, FiniteSets, TLC

VARIABLES
    \* ---- RecoveryLoop (recovery_loop.py) ----
    now,                      \* datetime.now(), whole seconds
    max_retries,              \* RecoveryLoop.max_retries
    base_delay_ms,            \* RecoveryLoop.base_delay_ms
    max_delay_ms,             \* RecoveryLoop.max_delay_ms
    circuit_breaker_threshold,\* RecoveryLoop.circuit_breaker_threshold
    circuit_breakers,         \* RecoveryLoop.circuit_breakers: name -> CircuitBreakerState
    recovery_history,         \* RecoveryLoop.recovery_history: list of RecoveryAttempt
    pc,                       \* position of the execute_with_recovery coroutine
    frame,                    \* arguments and loop variable of the running call
    outcome,                  \* what the last call returned (or raised)
    \* ---- observations of the running top-level call (history variables) ----
    checks,                   \* the circuit checks made: breaker before/after, time, answer
    invoked,                  \* name -> number of invocations of that step function
    sleeps,                   \* per try: its number, its strategy, the delay slept before it
    hist_at_call,             \* Len(recovery_history) when the call started
    call_args,                \* the arguments the client gave
    recorded,                 \* name -> record_failure calls since registration / reset / auto-close
    \* ---- LangGraphSupervisorAgent (langgraph_supervisor.py) ----
    agents,                   \* self.agents: the registered names, in registration order
    behaviour,                \* what each registered callable does when it is invoked
    graph,                    \* self.graph: nodes (name -> state), edges, start_node
    workflow_state,           \* self.workflow_state: key -> value
    blocked_tasks,            \* self.blocked_tasks: list of BlockedTask
    wpc,                      \* position of run_workflow
    max_iterations,           \* argument of the running run_workflow
    run_input,                \* its argument initial_input
    iteration,                \* its local `iteration`
    current_nodes,            \* the nodes of `current_nodes` the for loop has still to visit
    next_nodes,               \* its local `next_nodes`
    completed_nodes,          \* its local `completed_nodes`
    execution_log,            \* its local `execution_log`
    \* ---- observations of the running run_workflow (history variable) ----
    agent_calls,              \* the invocations of registered callables, in order
    escalation_levels,        \* per handle_blocked_task: the levels _escalate_task saw
    \* ---- SupervisorAgent (supervisor_agent.py) ----
    sup_agents,               \* self.agents: the registered names, in registration order
    sup_behaviour,            \* what each registered callable does when it is invoked
    sup_blocked_tasks,        \* self.blocked_tasks: list of BlockedTask
    sup_pc,                   \* position of run_workflow
    sup_max_steps,            \* argument max_steps of the running run_workflow
    sup_step,                 \* its loop variable `step`
    sup_context,              \* its local `context`
    sup_results,              \* its local `results`
    \* ---- observations of the running run_workflow (history variable) ----
    sup_calls,                \* the invocations of registered callables, in order
    \* ---- guard evaluation by a client of the supervisor (history variable) ----
    guard_obs,                \* the last evaluate_condition / get_next_nodes call and its answer
    \* ---- StuckIssueDetector (stuck_issue_detector.py) ----
    wall_clock,               \* datetime.now() as the detector reads it, whole seconds
    timeout_threshold,        \* StuckIssueDetector.timeout_threshold
    max_iterations_without_progress, \* StuckIssueDetector.max_iterations_without_progress
    agent_start_times,        \* self.agent_start_times, in insertion order
    agent_last_progress,      \* self.agent_last_progress, in insertion order
    agent_iteration_counts,   \* self.agent_iteration_counts
    workflow_tracking,        \* self.workflow_tracking, in insertion order
    detected_issues,          \* self.detected_issues: list of StuckIssue
    issue_callbacks,          \* self.issue_callbacks: what each registered callback does
    \* ---- observations of the detector (history variables) ----
    callback_calls,           \* the invocations of issue callbacks, in order
    monitor_errors,           \* did an exception reach the except clause of _monitoring_loop
    passes,                   \* the passes _monitoring_loop has made, modulo 2
    \* ---- MessageBus (src/agent_communication/message_bus.py) ----
    _subscriptions,           \* self._subscriptions: topic -> list of Subscription
    _message_queue,           \* self._message_queue
    _running,                 \* self._running
    _message_history,         \* self._message_history
    created,                  \* number of Subscription and Message objects created so far
    \* ---- observations of the bus (history variable) ----
    deliveries,               \* the invocations of subscription callbacks, in order
    \* ---- the callers of the components ----
    kept_result,              \* what an earlier run_workflow returned to the client, or None
    monitor_pending,          \* the issues a scan of the monitoring thread has built and not yet reported
    notifications             \* the calls the supervisor with stuck detection made to its detector during
                              \* the current run, in order (history variable)

recovery_vars == <<now, max_retries, base_delay_ms, max_delay_ms, circuit_breaker_threshold,
                   circuit_breakers, recovery_history, pc, frame, outcome,
                   checks, invoked, sleeps, hist_at_call, call_args, recorded>>

workflow_vars == <<agents, behaviour, graph, workflow_state, blocked_tasks, wpc,
                   max_iterations, run_input, iteration, current_nodes, next_nodes,
                   completed_nodes, execution_log, agent_calls, escalation_levels>>

basic_vars == <<sup_agents, sup_behaviour, sup_blocked_tasks, sup_pc, sup_max_steps,
                sup_step, sup_context, sup_results, sup_calls>>

guard_vars == <<guard_obs>>

detector_vars == <<wall_clock, timeout_threshold, max_iterations_without_progress,
                   agent_start_times, agent_last_progress, agent_iteration_counts,
                   workflow_tracking, detected_issues, issue_callbacks,
                   callback_calls, monitor_errors, passes>>

bus_vars == <<_subscriptions, _message_queue, _running, _message_history, created,
              deliveries>>

caller_vars == <<kept_result, monitor_pending, notifications>>

vars == <<recovery_vars, workflow_vars, basic_vars, guard_vars, detector_vars, bus_vars,
          caller_vars>>

(***************************************************************************)
(* Bounds of the model.                                                    *)
(***************************************************************************)
MaxTime == 2          \* the clock stops advancing here
MaxHistory == 3       \* no try is started once the history holds this many records
MaxFailureCount == 4  \* no call is started once a breaker has counted this many failures
MaxBlockedTasks == 1  \* no workflow run is started once this many tasks are blocked
MaxClock == 119       \* the detector's clock stops advancing here
MaxIterationCount == 1 \* no agent progress is reported beyond this iteration count
MaxCompletedNodes == 1 \* no workflow progress is reported beyond this many completed nodes
MaxCreated == 3       \* the bus creates no more subscriptions and messages than this

(***************************************************************************)
(* Constants of the code.                                                  *)
(***************************************************************************)
RecentSeconds == 60   \* _report_issue: an issue this recent suppresses its like
HourSeconds == 3600   \* get_active_issues: timedelta(hours=1)

(***************************************************************************)
(* RecoveryStrategy                                                        *)
(***************************************************************************)
IMMEDIATE_RETRY == "immediate_retry"
EXPONENTIAL_BACKOFF == "exponential_backoff"
CIRCUIT_BREAKER == "circuit_breaker"
ALTERNATIVE_AGENT == "alternative_agent"
FALLBACK_DEFAULT == "fallback_default"

RecoveryStrategy ==
    {IMMEDIATE_RETRY, EXPONENTIAL_BACKOFF, CIRCUIT_BREAKER, ALTERNATIVE_AGENT, FALLBACK_DEFAULT}

Range(s) == {s[i] : i \in 1..Len(s)}

Min(a, b) == IF a <= b THEN a ELSE b

\* [s for s in strategies if s != x]
Without(s, x) == SelectSeq(s, LAMBDA e : e # x)

(***************************************************************************)
(* CircuitBreakerState                                                     *)
(***************************************************************************)
NoTime == -1          \* last_failure_time = None

\* the literal of record_failure: "Open circuit after 3 failures"
OpenAfterFailures == 3

CircuitBreakerState(reset_timeout_seconds) ==
    [failure_count |-> 0, last_failure_time |-> NoTime, circuit_open |-> FALSE,
     reset_timeout_seconds |-> reset_timeout_seconds]

\* as should_allow_request, but the circuit closes when reset_timeout_seconds
\* have elapsed, not when more have
should_allow_request_at_timeout(cb, t) ==
    IF ~cb.circuit_open
    THEN [allow |-> TRUE, cb |-> cb]
    ELSE IF cb.last_failure_time # NoTime
            /\ t - cb.last_failure_time >= cb.reset_timeout_seconds
         THEN [allow |-> TRUE,
               cb |-> [cb EXCEPT !.circuit_open = FALSE, !.failure_count = 0]]
         ELSE [allow |-> FALSE, cb |-> cb]

\* as should_allow_request, but the auto-close keeps the failure count
should_allow_request_keeps_count(cb, t) ==
    IF ~cb.circuit_open
    THEN [allow |-> TRUE, cb |-> cb]
    ELSE IF cb.last_failure_time # NoTime
            /\ t - cb.last_failure_time > cb.reset_timeout_seconds
         THEN [allow |-> TRUE, cb |-> [cb EXCEPT !.circuit_open = FALSE]]
         ELSE [allow |-> FALSE, cb |-> cb]

\* should_allow_request: the answer and the breaker as the check leaves it
should_allow_request(cb, t) ==
    IF ~cb.circuit_open
    THEN [allow |-> TRUE, cb |-> cb]
    ELSE IF cb.last_failure_time # NoTime
            /\ t - cb.last_failure_time > cb.reset_timeout_seconds
         THEN [allow |-> TRUE,
               cb |-> [cb EXCEPT !.circuit_open = FALSE, !.failure_count = 0]]
         ELSE [allow |-> FALSE, cb |-> cb]

\* as record_failure, but the circuit opens one failure later
record_failure_late(cb, t) ==
    LET c == cb.failure_count + 1
    IN  [cb EXCEPT !.failure_count = c,
                   !.last_failure_time = t,
                   !.circuit_open = IF c > OpenAfterFailures THEN TRUE ELSE @]

\* record_failure
record_failure(cb, t) ==
    LET c == cb.failure_count + 1
    IN  [cb EXCEPT !.failure_count = c,
                   !.last_failure_time = t,
                   !.circuit_open = IF c >= OpenAfterFailures THEN TRUE ELSE @]

(***************************************************************************)
(* RecoveryLoop helpers                                                    *)
(***************************************************************************)
\* a loop that refuses the names it has no breaker for
_can_execute_agent_fail_closed(cbs, agent_name, t) ==
    IF agent_name \notin DOMAIN cbs
    THEN [allow |-> FALSE, cbs |-> cbs]
    ELSE LET r == should_allow_request(cbs[agent_name], t)
         IN  [allow |-> r.allow, cbs |-> [cbs EXCEPT ![agent_name] = r.cb]]

\* _can_execute_agent: unregistered names are allowed
_can_execute_agent(cbs, agent_name, t) ==
    IF agent_name \notin DOMAIN cbs
    THEN [allow |-> TRUE, cbs |-> cbs]
    ELSE LET r == should_allow_request(cbs[agent_name], t)
         IN  [allow |-> r.allow, cbs |-> [cbs EXCEPT ![agent_name] = r.cb]]

\* _record_failure: only a registered breaker records
_record_failure(cbs, agent_name, t) ==
    IF agent_name \in DOMAIN cbs
    THEN [cbs EXCEPT ![agent_name] = record_failure(@, t)]
    ELSE cbs

Pow2(n) == IF n <= 0 THEN 1 ELSE 2 ^ n

\* as _get_delay_ms, but the exponent is the attempt number
_get_delay_ms_shifted(attempt, strategy) ==
    IF strategy = IMMEDIATE_RETRY THEN 0
    ELSE IF strategy = EXPONENTIAL_BACKOFF
         THEN Min(base_delay_ms * Pow2(attempt), max_delay_ms)
         ELSE 0

\* _get_delay_ms (attempt >= 1 at its only call site)
_get_delay_ms(attempt, strategy) ==
    IF strategy = IMMEDIATE_RETRY THEN 0
    ELSE IF strategy = EXPONENTIAL_BACKOFF
         THEN Min(base_delay_ms * Pow2(attempt - 1), max_delay_ms)
         ELSE 0

\* the delay before try number `attempt`: none before the first try
SleepBefore(attempt, strategy) ==
    IF attempt > 0 THEN _get_delay_ms(attempt, strategy) ELSE 0

\* f"{agent_name}_fallback"
AltName(agent_name) == agent_name \o "_fallback"

\* strategies[attempt % len(strategies)] if attempt > 0 else strategies[0]
StrategyFor(strategies, attempt) ==
    IF attempt > 0 THEN strategies[(attempt % Len(strategies)) + 1] ELSE strategies[1]

(***************************************************************************)
(* Inputs of the model                                                     *)
(***************************************************************************)
None == "None"

\* the step name execute_with_recovery is called with by its clients
TopNames == {"X"}

\* names a circuit breaker may be registered for
BreakerNames == {"X"}

\* reset_timeout_seconds given to register_circuit_breaker
ResetTimeouts == {1}

StrategyLists ==
    { <<EXPONENTIAL_BACKOFF>>,
      <<EXPONENTIAL_BACKOFF, FALLBACK_DEFAULT>>,
      <<ALTERNATIVE_AGENT>>,
      <<IMMEDIATE_RETRY, ALTERNATIVE_AGENT, FALLBACK_DEFAULT>> }

\* the keys of alternative_agents
AlternativeMaps == { {}, {"X_fallback", "X_fallback_fallback"} }

FallbackResults == {None, "fallback_value"}

\* RecoveryLoop(...) as constructed in the repository: the defaults, and the
\* configuration of test_circuit_breaker (test_recovery_loop.py)
Configs ==
    { [max_retries |-> 2, base_delay_ms |-> 1000, max_delay_ms |-> 30000,
       circuit_breaker_threshold |-> 3],
      [max_retries |-> 1, base_delay_ms |-> 1000, max_delay_ms |-> 30000,
       circuit_breaker_threshold |-> 2] }

\* the value a step function returns
ResultOf(agent_name) == "result:" \o agent_name

NoFrame ==
    [agent_name |-> "", strategies |-> <<>>, alternative_agents |-> {},
     fallback_result |-> None, attempt |-> 0]

\* An outcome is the returned dict: `keys` are the keys it carries, and a field
\* whose key is absent holds a default.  kind "raised" is an exception that
\* left execute_with_recovery instead of a dict.
NoOutcome ==
    [kind |-> "none", agent |-> "", status |-> "", result |-> None, keys |-> {},
     recovery_attempts |-> 0, recovery_applied |-> FALSE,
     circuit_breaker_triggered |-> FALSE]

(***************************************************************************)
(* RecoveryLoop.__init__                                                   *)
(***************************************************************************)
RecoveryInit ==
    /\ now = 0
    /\ \E c \in Configs :
          /\ max_retries = c.max_retries
          /\ base_delay_ms = c.base_delay_ms
          /\ max_delay_ms = c.max_delay_ms
          /\ circuit_breaker_threshold = c.circuit_breaker_threshold
    /\ circuit_breakers = <<>>
    /\ recovery_history = <<>>
    /\ pc = "idle"
    /\ frame = NoFrame
    /\ outcome = NoOutcome
    /\ checks = <<>>
    /\ invoked = <<>>
    /\ sleeps = <<>>
    /\ hist_at_call = 0
    /\ call_args = NoFrame
    /\ recorded = <<>>

config_vars == <<max_retries, base_delay_ms, max_delay_ms, circuit_breaker_threshold>>
call_obs == <<checks, invoked, sleeps, hist_at_call, call_args>>

\* time passes
Tick ==
    /\ now < MaxTime
    /\ now' = now + 1
    /\ UNCHANGED <<config_vars, circuit_breakers, recovery_history, pc, frame, outcome,
                   call_obs, recorded>>
    /\ UNCHANGED <<workflow_vars, basic_vars, guard_vars, detector_vars, bus_vars, caller_vars>>

\* register_circuit_breaker(agent_name, reset_timeout_seconds)
register_circuit_breaker(agent_name, reset_timeout_seconds) ==
    /\ pc = "idle"
    /\ circuit_breakers' =
          [n \in DOMAIN circuit_breakers \cup {agent_name} |->
              IF n = agent_name THEN CircuitBreakerState(reset_timeout_seconds)
              ELSE circuit_breakers[n]]
    /\ recorded' =
          [n \in DOMAIN circuit_breakers \cup {agent_name} |->
              IF n = agent_name THEN 0 ELSE recorded[n]]
    /\ UNCHANGED <<now, config_vars, recovery_history, pc, frame, outcome, call_obs>>
    /\ UNCHANGED <<workflow_vars, basic_vars, guard_vars, detector_vars, bus_vars, caller_vars>>

\* reset_circuit_breakers()
reset_circuit_breakers ==
    /\ pc = "idle"
    /\ circuit_breakers' =
          [n \in DOMAIN circuit_breakers |->
              [circuit_breakers[n] EXCEPT !.circuit_open = FALSE, !.failure_count = 0,
                                          !.last_failure_time = NoTime]]
    /\ recorded' = [n \in DOMAIN circuit_breakers |-> 0]
    /\ UNCHANGED <<now, config_vars, recovery_history, pc, frame, outcome, call_obs>>
    /\ UNCHANGED <<workflow_vars, basic_vars, guard_vars, detector_vars, bus_vars, caller_vars>>

\* clear_recovery_history()
clear_recovery_history ==
    /\ pc = "idle"
    /\ recovery_history' = <<>>
    /\ UNCHANGED <<now, config_vars, circuit_breakers, pc, frame, outcome,
                   call_obs, recorded>>
    /\ UNCHANGED <<workflow_vars, basic_vars, guard_vars, detector_vars, bus_vars, caller_vars>>

\* what a circuit check of agent_name at the current time is observed to do
CheckRecord(cbs, rec, agent_name) ==
    LET reg == agent_name \in DOMAIN cbs
        r == _can_execute_agent(cbs, agent_name, now)
    IN  [agent |-> agent_name, registered |-> reg, t |-> now, allow |-> r.allow,
         recorded |-> IF reg THEN rec[agent_name] ELSE 0,
         before |-> IF reg THEN cbs[agent_name] ELSE CircuitBreakerState(0),
         after |-> IF reg THEN r.cbs[agent_name] ELSE CircuitBreakerState(0)]

\* `recorded` after a circuit check: an auto-close starts the count again
RecordedAfterCheck(cbs, rec, agent_name) ==
    IF agent_name \in DOMAIN cbs
       /\ cbs[agent_name].circuit_open
       /\ _can_execute_agent(cbs, agent_name, now).allow
    THEN [rec EXCEPT ![agent_name] = 0]
    ELSE rec

Bump(f, n) == IF n \in DOMAIN f THEN [f EXCEPT ![n] = @ + 1] ELSE f

\* as AlternativeFrame, but handing the strategies on unchanged
AlternativeFrameKeepingStrategies(fr) ==
    [agent_name |-> AltName(fr.agent_name),
     strategies |-> fr.strategies,
     alternative_agents |-> fr.alternative_agents,
     fallback_result |-> fr.fallback_result,
     attempt |-> 0]

\* the arguments of the recursive call for the alternative agent
AlternativeFrame(fr) ==
    [agent_name |-> AltName(fr.agent_name),
     strategies |-> Without(fr.strategies, ALTERNATIVE_AGENT),
     alternative_agents |-> fr.alternative_agents,
     fallback_result |-> fr.fallback_result,
     attempt |-> 0]

\* RecoveryStrategy.ALTERNATIVE_AGENT in strategies, and alt_agent_name in alternative_agents
HasAlternative(fr) ==
    /\ ALTERNATIVE_AGENT \in Range(fr.strategies)
    /\ AltName(fr.agent_name) \in fr.alternative_agents

\* the dict returned when the circuit is open and a fallback_result was given
RejectedFallbackOutcome(fr) ==
    [NoOutcome EXCEPT !.kind = "returned", !.agent = fr.agent_name,
                      !.status = "fallback", !.result = fr.fallback_result,
                      !.keys = {"agent", "result", "status", "error", "recovery_applied"},
                      !.recovery_applied = TRUE]

\* the dict returned when the circuit is open and nothing else applies
RejectedFailedOutcome(fr) ==
    [NoOutcome EXCEPT !.kind = "returned", !.agent = fr.agent_name,
                      !.status = "failed",
                      !.keys = {"agent", "error", "status", "recovery_applied",
                                "circuit_breaker_triggered"},
                      !.recovery_applied = TRUE,
                      !.circuit_breaker_triggered = TRUE]

\* whether the rejected call hands back the fallback_result
RejectedUsesFallback(fr) == fr.fallback_result # None

\* execute_with_recovery from its first line to its first try: the circuit
\* check, and for a rejected call the recorded failure and the routing to the
\* alternative agent (the recursive call), the fallback_result or the failure.
\* Yields the position reached and the state as the code leaves it.
RECURSIVE Enter(_, _, _, _)
Enter(fr, cbs, rec, chks) ==
    LET a == fr.agent_name
        chk == _can_execute_agent(cbs, a, now)
        chks1 == Append(chks, CheckRecord(cbs, rec, a))
        rec1 == RecordedAfterCheck(cbs, rec, a)
    IN  IF chk.allow
        THEN [pc |-> "try", frame |-> fr, outcome |-> NoOutcome,
              cbs |-> chk.cbs, recorded |-> rec1, checks |-> chks1]
        ELSE LET cbs2 == _record_failure(chk.cbs, a, now)
                 rec2 == Bump(rec1, a)
             IN  IF HasAlternative(fr)
                 THEN Enter(AlternativeFrame(fr), cbs2, rec2, chks1)
                 ELSE [pc |-> "returned", frame |-> NoFrame,
                       outcome |-> IF RejectedUsesFallback(fr)
                                   THEN RejectedFallbackOutcome(fr)
                                   ELSE RejectedFailedOutcome(fr),
                       cbs |-> cbs2, recorded |-> rec2, checks |-> chks1]

\* a client calls execute_with_recovery(agent_name, agent_func, input_data,
\* strategies, alternative_agents, fallback_result)
Call(agent_name, strategies, alternative_agents, fallback_result) ==
    /\ pc = "idle"
    /\ \A n \in DOMAIN circuit_breakers :
          circuit_breakers[n].failure_count < MaxFailureCount
    /\ LET fr == [agent_name |-> agent_name, strategies |-> strategies,
                  alternative_agents |-> alternative_agents,
                  fallback_result |-> fallback_result, attempt |-> 0]
           r == Enter(fr, circuit_breakers, recorded, <<>>)
       IN  /\ pc' = r.pc
           /\ frame' = r.frame
           /\ outcome' = r.outcome
           /\ circuit_breakers' = r.cbs
           /\ recorded' = r.recorded
           /\ checks' = r.checks
    /\ invoked' = [n \in {agent_name, AltName(agent_name), AltName(AltName(agent_name))} |-> 0]
    /\ sleeps' = <<>>
    /\ hist_at_call' = Len(recovery_history)
    /\ call_args' = [agent_name |-> agent_name, strategies |-> strategies,
                     alternative_agents |-> alternative_agents,
                     fallback_result |-> fallback_result, attempt |-> 0]
    /\ UNCHANGED <<now, config_vars, recovery_history>>
    /\ UNCHANGED <<workflow_vars, basic_vars, guard_vars, detector_vars, bus_vars, caller_vars>>

\* RecoveryAttempt; the history variable `agent` names the step that was tried
\* (timestamp, error text and duration_ms are not modelled)
RecoveryAttempt(agent_name, attempt_number, strategy_used, success) ==
    [agent |-> agent_name, attempt_number |-> attempt_number,
     strategy_used |-> strategy_used, success |-> success]

\* as Tries, but without the initial try
TriesWithoutInitial == max_retries

\* the number of tries of the loop: range(self.max_retries + 1)
Tries == max_retries + 1

\* as SuccessOutcome, but counting the try that succeeded among the recoveries
SuccessOutcomeCountingAll(fr) ==
    [NoOutcome EXCEPT !.kind = "returned", !.agent = fr.agent_name,
                      !.status = "success", !.result = ResultOf(fr.agent_name),
                      !.keys = {"agent", "result", "status", "recovery_attempts",
                                "recovery_applied"},
                      !.recovery_attempts = fr.attempt + 1,
                      !.recovery_applied = TRUE]

\* the dict returned by the try that succeeds
SuccessOutcome(fr) ==
    [NoOutcome EXCEPT !.kind = "returned", !.agent = fr.agent_name,
                      !.status = "success", !.result = ResultOf(fr.agent_name),
                      !.keys = {"agent", "result", "status", "recovery_attempts",
                                "recovery_applied"},
                      !.recovery_attempts = IF fr.attempt > 0 THEN fr.attempt ELSE 0,
                      !.recovery_applied = (fr.attempt > 0)]

\* as ExhaustedUsesFallback, but looking at the first strategy only
ExhaustedUsesFallbackFirstOnly(fr) ==
    /\ fr.strategies[1] = FALLBACK_DEFAULT
    /\ fr.fallback_result # None

\* whether the exhausted call hands back the fallback_result
ExhaustedUsesFallback(fr) ==
    /\ FALLBACK_DEFAULT \in Range(fr.strategies)
    /\ fr.fallback_result # None

\* the dict returned when every try failed and the fallback_result is used
ExhaustedFallbackOutcome(fr) ==
    [NoOutcome EXCEPT !.kind = "returned", !.agent = fr.agent_name,
                      !.status = "fallback", !.result = fr.fallback_result,
                      !.keys = {"agent", "result", "status", "error", "recovery_applied",
                                "recovery_attempts"},
                      !.recovery_applied = TRUE,
                      !.recovery_attempts = fr.attempt + 1]

\* the dict returned when every try failed and nothing else applies
ExhaustedFailedOutcome(fr, cbs) ==
    [NoOutcome EXCEPT !.kind = "returned", !.agent = fr.agent_name,
                      !.status = "failed",
                      !.keys = {"agent", "error", "status", "recovery_applied",
                                "recovery_attempts", "circuit_breaker_triggered"},
                      !.recovery_applied = TRUE,
                      !.recovery_attempts = fr.attempt + 1,
                      !.circuit_breaker_triggered =
                          IF fr.agent_name \in DOMAIN cbs
                          THEN cbs[fr.agent_name].circuit_open ELSE FALSE]

\* strategies[0] of an empty list: the IndexError leaves the call
RaisedOutcome(fr) ==
    [NoOutcome EXCEPT !.kind = "raised", !.agent = fr.agent_name,
                      !.status = "IndexError"]

\* the last try failed: the alternative agent, the fallback_result or the failure
Exhausted(fr, cbs, rec, chks) ==
    IF HasAlternative(fr)
    THEN Enter(AlternativeFrame(fr), cbs, rec, chks)
    ELSE [pc |-> "returned", frame |-> NoFrame,
          outcome |-> IF ExhaustedUsesFallback(fr)
                      THEN ExhaustedFallbackOutcome(fr)
                      ELSE ExhaustedFailedOutcome(fr, cbs),
          cbs |-> cbs, recorded |-> rec, checks |-> chks]

\* the step function raised on try fr.attempt: the failure is recorded, and the
\* loop goes on to the next try unless this was the last one
AfterFailure(fr, cbs, rec, chks) ==
    LET cbs1 == _record_failure(cbs, fr.agent_name, now)
        rec1 == Bump(rec, fr.agent_name)
    IN  IF fr.attempt + 1 = Tries
        THEN Exhausted(fr, cbs1, rec1, chks)
        ELSE [pc |-> "try", frame |-> [fr EXCEPT !.attempt = @ + 1], outcome |-> NoOutcome,
              cbs |-> cbs1, recorded |-> rec1, checks |-> chks]

\* as AfterSuccess, but a success closes the breaker and starts its count again
AfterSuccessResetting(fr, cbs, rec, chks) ==
    [pc |-> "returned", frame |-> NoFrame, outcome |-> SuccessOutcome(fr),
     cbs |-> [n \in DOMAIN cbs |->
                 IF n = fr.agent_name
                 THEN [cbs[n] EXCEPT !.circuit_open = FALSE, !.failure_count = 0]
                 ELSE cbs[n]],
     recorded |-> rec, checks |-> chks]

\* the step function returned on try fr.attempt
AfterSuccess(fr, cbs, rec, chks) ==
    [pc |-> "returned", frame |-> NoFrame, outcome |-> SuccessOutcome(fr),
     cbs |-> cbs, recorded |-> rec, checks |-> chks]

\* one pass of the for loop: the strategy, the sleep before a retry, the
\* invocation of the step function, which returns (ok) or raises, the
\* RecoveryAttempt appended, and what follows up to the next await
Attempt ==
    /\ pc = "try"
    /\ Len(recovery_history) < MaxHistory
    /\ IF Len(frame.strategies) = 0
       THEN /\ pc' = "returned"
            /\ frame' = NoFrame
            /\ outcome' = RaisedOutcome(frame)
            /\ UNCHANGED <<circuit_breakers, recovery_history, invoked, sleeps, recorded, checks>>
       ELSE LET a == frame.agent_name
                strategy == StrategyFor(frame.strategies, frame.attempt)
            IN  /\ sleeps' = Append(sleeps,
                                    [agent |-> a, attempt |-> frame.attempt,
                                     strategy |-> strategy,
                                     delay_ms |-> SleepBefore(frame.attempt, strategy)])
                /\ invoked' = [invoked EXCEPT ![a] = @ + 1]
                /\ \E ok \in BOOLEAN :
                      /\ recovery_history' =
                            Append(recovery_history,
                                   RecoveryAttempt(a, frame.attempt + 1, strategy, ok))
                      /\ LET r == IF ok
                                  THEN AfterSuccess(frame, circuit_breakers, recorded, checks)
                                  ELSE AfterFailure(frame, circuit_breakers, recorded, checks)
                         IN  /\ pc' = r.pc
                             /\ frame' = r.frame
                             /\ outcome' = r.outcome
                             /\ circuit_breakers' = r.cbs
                             /\ recorded' = r.recorded
                             /\ checks' = r.checks
    /\ UNCHANGED <<now, config_vars, hist_at_call, call_args>>
    /\ UNCHANGED <<workflow_vars, basic_vars, guard_vars, detector_vars, bus_vars, caller_vars>>

\* the caller has taken the outcome: the loop is idle again
Resume ==
    /\ pc = "returned"
    /\ pc' = "idle"
    /\ outcome' = NoOutcome
    /\ checks' = <<>>
    /\ invoked' = <<>>
    /\ sleeps' = <<>>
    /\ hist_at_call' = 0
    /\ call_args' = NoFrame
    /\ UNCHANGED <<now, config_vars, circuit_breakers, recovery_history, frame, recorded>>
    /\ UNCHANGED <<workflow_vars, basic_vars, guard_vars, detector_vars, bus_vars, caller_vars>>

RecoveryNext ==
    \/ Tick
    \/ \E n \in BreakerNames, t \in ResetTimeouts : register_circuit_breaker(n, t)
    \/ reset_circuit_breakers
    \/ clear_recovery_history
    \/ \E n \in TopNames, s \in StrategyLists, alt \in AlternativeMaps, fb \in FallbackResults :
          Call(n, s, alt, fb)
    \/ Attempt
    \/ Resume

(***************************************************************************)
(* Two step names, each with or without a breaker of its own: the same     *)
(* operations, called for either name.                                     *)
(***************************************************************************)
TwoNames == {"X", "X_fallback"}

TwoNamesStrategyLists == { <<ALTERNATIVE_AGENT, EXPONENTIAL_BACKOFF>> }

\* RecoveryLoop(max_retries=1)
BreakersInit ==
    /\ now = 0
    /\ max_retries = 1
    /\ base_delay_ms = 1000
    /\ max_delay_ms = 30000
    /\ circuit_breaker_threshold = 3
    /\ circuit_breakers = <<>>
    /\ recovery_history = <<>>
    /\ pc = "idle"
    /\ frame = NoFrame
    /\ outcome = NoOutcome
    /\ checks = <<>>
    /\ invoked = <<>>
    /\ sleeps = <<>>
    /\ hist_at_call = 0
    /\ call_args = NoFrame
    /\ recorded = <<>>

BreakersNext ==
    \/ Tick
    \/ \E n \in TwoNames, t \in ResetTimeouts : register_circuit_breaker(n, t)
    \/ reset_circuit_breakers
    \/ clear_recovery_history
    \/ \E n \in TwoNames, s \in TwoNamesStrategyLists, alt \in AlternativeMaps :
          Call(n, s, alt, None)
    \/ Attempt
    \/ Resume

(***************************************************************************)
(* LangGraphSupervisorAgent (langgraph_supervisor.py).  run_workflow is a  *)
(* sequence of steps, one per pass of its for loop: a step visits one node *)
(* of the ready set, runs execute_node with the whole escalation that a    *)
(* failing callable starts, and, on the last node of the set, closes the   *)
(* iteration of the while loop.                                            *)
(***************************************************************************)
\* AgentState
PENDING == "pending"
RUNNING == "running"
COMPLETED == "completed"
BLOCKED == "blocked"

\* EscalationLevel
LEVEL_1 == "level_1"
LEVEL_2 == "level_2"
LEVEL_3 == "level_3"

\* BlockedTask.max_retries
BlockedTaskMaxRetries == 3

\* BlockedTask(task_id, agent_name, error, escalation_level=LEVEL_1), retry_count 0
BlockedTask(node_name) ==
    [task_id |-> "node_" \o node_name, agent_name |-> node_name,
     escalation_level |-> LEVEL_1, retry_count |-> 0,
     max_retries |-> BlockedTaskMaxRetries]

WorkflowEdge(from_node, to_node, condition) ==
    [from_node |-> from_node, to_node |-> to_node, condition |-> condition]

\* WorkflowGraph()
WorkflowGraph == [nodes |-> <<>>, edges |-> <<>>, start_node |-> None]

\* d[k] = v on a dict
Put(d, k, v) == [x \in DOMAIN d \cup {k} |-> IF x = k THEN v ELSE d[x]]

\* d.get(k, default)
Get(d, k, default) == IF k \in DOMAIN d THEN d[k] ELSE default

\* WorkflowGraph.add_node
add_node(g, name) == [g EXCEPT !.nodes = Put(g.nodes, name, PENDING)]

\* WorkflowGraph.add_edge
add_edge(g, from_node, to_node, condition) ==
    [g EXCEPT !.edges = Append(g.edges, WorkflowEdge(from_node, to_node, condition))]

\* WorkflowGraph.set_start_node
set_start_node(g, name) ==
    LET h == [g EXCEPT !.start_node = name]
    IN  IF name \in DOMAIN g.nodes THEN h ELSE add_node(h, name)

RECURSIVE AddNodes(_, _)
AddNodes(g, names) ==
    IF names = <<>> THEN g ELSE AddNodes(add_node(g, Head(names)), Tail(names))

RECURSIVE AddEdges(_, _)
AddEdges(g, es) ==
    IF es = <<>> THEN g
    ELSE AddEdges(add_edge(g, Head(es)[1], Head(es)[2], Head(es)[3]), Tail(es))

WorkflowNodes ==
    <<"input_processing", "analysis", "decision", "execution", "validation", "output">>

\* LangGraphSupervisorAgent.create_workflow
create_workflow(g) ==
    AddEdges(set_start_node(AddNodes(g, WorkflowNodes), "input_processing"),
             << <<"input_processing", "analysis", "input_valid">>,
                <<"analysis", "decision", "analysis_complete">>,
                <<"decision", "execution", "requires_execution">>,
                <<"decision", "output", "ready_for_output">>,
                <<"execution", "validation", "execution_complete">>,
                <<"validation", "output", "validation_passed">>,
                <<"validation", "analysis", "validation_failed">> >>)

\* LangGraphSupervisorAgent.evaluate_condition
evaluate_condition(condition, context) ==
    CASE condition = "always" -> TRUE
      [] condition = "input_valid" -> Get(context, "input_valid", TRUE)
      [] condition = "analysis_complete" -> Get(context, "analysis_complete", TRUE)
      [] condition = "requires_execution" -> Get(context, "requires_execution", TRUE)
      [] condition = "ready_for_output" -> Get(context, "ready_for_output", FALSE)
      [] condition = "execution_complete" -> Get(context, "execution_complete", FALSE)
      [] condition = "validation_passed" -> Get(context, "validation_passed", TRUE)
      [] condition = "validation_failed" -> ~Get(context, "validation_passed", FALSE)
      [] OTHER -> FALSE

RECURSIVE Targets(_)
Targets(es) ==
    IF es = <<>> THEN <<>> ELSE <<Head(es).to_node>> \o Targets(Tail(es))

\* LangGraphSupervisorAgent.get_next_nodes
get_next_nodes(g, context, current_node) ==
    Targets(SelectSeq(g.edges,
                      LAMBDA edge : /\ edge.from_node = current_node
                                    /\ evaluate_condition(edge.condition, context)))

\* the keys the example agents write into the dict they are given
Writes(name) ==
    CASE name = "input_processing" -> {"input_valid"}
      [] name = "analysis" -> {"analysis_complete", "requires_execution"}
      [] name = "execution" -> {"execution_complete", "ready_for_output"}
      [] name = "validation" -> {"validation_passed"}
      [] OTHER -> {}

\* the dict after the example agent `name` has run on it
ApplyWrites(context, name) ==
    [k \in DOMAIN context \cup Writes(name) |->
        IF k \in Writes(name) THEN TRUE ELSE context[k]]

\* a registered callable returns a non-empty dict, returns an empty one, or raises
Outcomes == {"ok", "falsy", "raise"}

\* what an invocation of the callable registered as `name` may do
OutcomesOf(name) ==
    IF behaviour[name] = "flaky" THEN Outcomes ELSE {behaviour[name]}


\* one invocation of a registered callable, as observed: `input_data` is the
\* dict it is called with, as it is at the call
Invocation(name, via, for_node, result, input_data) ==
    [agent |-> name, via |-> via, for_node |-> for_node, outcome |-> result,
     input_data |-> input_data]

\* what execute_node returns: the callable's own dict, or the escalation's
NodeResult(status, via, by, truthy) ==
    [status |-> status, via |-> via, by |-> by, truthy |-> truthy]

\* a remove that leaves the list as it is
RemoveNothing(s, x) == s

\* list.remove(x): without the first element equal to x
RemoveFirst(s, x) ==
    IF \E i \in 1..Len(s) : s[i] = x
    THEN LET i == CHOOSE j \in 1..Len(s) : s[j] = x /\ \A k \in 1..(j - 1) : s[k] # x
         IN  SubSeq(s, 1, i - 1) \o SubSeq(s, i + 1, Len(s))
    ELSE s

\* the task is in the list by reference: a change of its fields shows there
Mutated(bts, old, new) ==
    [i \in 1..Len(bts) |-> IF i = Len(bts) /\ bts[i] = old THEN new ELSE bts[i]]

\* [name for name in self.agents.keys() if name != blocked_task.agent_name]
alternative_nodes(agent_name) == SelectSeq(agents, LAMBDA name : name # agent_name)

Registered(name) == name \in Range(agents)

\* the callable `name` invoked on `context`; `shared` tells whether `context` is
\* self.workflow_state itself (`blocked_task.context or {}` is a new dict when
\* the context is empty)
AfterInvocation(context, name, o, shared) ==
    IF o = "ok" /\ shared THEN ApplyWrites(context, name) ELSE context

RECURSIVE _escalate_task(_, _, _, _, _, _, _)

\* LangGraphSupervisorAgent._handle_level3_escalation
_handle_level3_escalation(task, context, bts, calls, levels) ==
    [result |-> NodeResult("escalated", "escalation_record", task.agent_name, TRUE),
     workflow_state |-> context, blocked_tasks |-> bts, agent_calls |-> calls,
     levels |-> levels]

\* LangGraphSupervisorAgent._handle_level2_escalation, o3 what the alternative does
_handle_level2_escalation(task, context, bts, calls, levels, o3) ==
    LET alts == alternative_nodes(task.agent_name)
        alternative_node == Head(alts)
        shared == DOMAIN context # {}
        calls2 == IF alts # <<>>
                  THEN Append(calls, Invocation(alternative_node, "alternative",
                                                task.agent_name, o3, context))
                  ELSE calls
        context2 == IF alts # <<>>
                    THEN AfterInvocation(context, alternative_node, o3, shared)
                    ELSE context
        task3 == [task EXCEPT !.escalation_level = LEVEL_3]
    IN  IF alts # <<>> /\ o3 = "ok"
        THEN [result |-> NodeResult("success", "alternative_used", alternative_node, TRUE),
              workflow_state |-> context2,
              blocked_tasks |-> RemoveFirst(bts, task),
              agent_calls |-> calls2,
              levels |-> levels]
        ELSE _escalate_task(task3, context2, Mutated(bts, task, task3), calls2,
                            levels, "raise", "raise")

\* LangGraphSupervisorAgent._handle_level1_escalation, o2 what the retried callable does
_handle_level1_escalation(task, context, bts, calls, levels, o2, o3) ==
    LET task2 == [task EXCEPT !.escalation_level = LEVEL_2]
    IN  IF task.retry_count < task.max_retries
        THEN LET retried == [task EXCEPT !.retry_count = @ + 1]
                 bts1 == Mutated(bts, task, retried)
                 shared == DOMAIN context # {}
                 known == Registered(task.agent_name)
                 calls1 == IF known
                           THEN Append(calls, Invocation(task.agent_name, "retry",
                                                         task.agent_name, o2, context))
                           ELSE calls
                 context1 == IF known
                             THEN AfterInvocation(context, task.agent_name, o2, shared)
                             ELSE context
                 retried2 == [retried EXCEPT !.escalation_level = LEVEL_2]
             IN  IF known /\ o2 = "ok"
                 THEN [result |-> NodeResult("success", "retry_success",
                                             task.agent_name, TRUE),
                       workflow_state |-> context1,
                       blocked_tasks |-> RemoveFirst(bts1, retried),
                       agent_calls |-> calls1,
                       levels |-> levels]
                 ELSE _escalate_task(retried2, context1, Mutated(bts1, retried, retried2),
                                     calls1, levels, o2, o3)
        ELSE _escalate_task(task2, context, Mutated(bts, task, task2), calls, levels,
                            o2, o3)

\* LangGraphSupervisorAgent._escalate_task: the handler of the task's level
_escalate_task(task, context, bts, calls, levels, o2, o3) ==
    LET seen == Append(levels, task.escalation_level)
    IN  CASE task.escalation_level = LEVEL_1 ->
                _handle_level1_escalation(task, context, bts, calls, seen, o2, o3)
          [] task.escalation_level = LEVEL_2 ->
                _handle_level2_escalation(task, context, bts, calls, seen, o3)
          [] task.escalation_level = LEVEL_3 ->
                _handle_level3_escalation(task, context, bts, calls, seen)

\* LangGraphSupervisorAgent.handle_blocked_task
handle_blocked_task(agent_name, context, bts, calls, o2, o3) ==
    LET blocked_task == BlockedTask(agent_name)
    IN  _escalate_task(blocked_task, context, Append(bts, blocked_task), calls, <<>>,
                       o2, o3)

\* LangGraphSupervisorAgent.execute_node for a node of the graph; o1, o2, o3 are
\* what the node's callable, its retry and the alternative do when invoked
execute_node(node_name, context, bts, calls, o1, o2, o3) ==
    IF Registered(node_name) /\ o1 # "raise"
    THEN [result |-> NodeResult(None, "direct", node_name, o1 = "ok"),
          workflow_state |-> AfterInvocation(context, node_name, o1, TRUE),
          blocked_tasks |-> bts,
          agent_calls |-> Append(calls, Invocation(node_name, "direct", node_name, o1, context)),
          levels |-> <<>>,
          state |-> COMPLETED]
    ELSE LET calls1 == IF Registered(node_name)
                       THEN Append(calls, Invocation(node_name, "direct", node_name, o1, context))
                       ELSE calls
             e == handle_blocked_task(node_name, context, bts, calls1, o2, o3)
         IN  [result |-> e.result, workflow_state |-> e.workflow_state,
              blocked_tasks |-> e.blocked_tasks, agent_calls |-> e.agent_calls,
              levels |-> e.levels,
              state |-> BLOCKED]


(***************************************************************************)
(* The supervisors the runs start from: a graph built with add_node,       *)
(* add_edge and set_start_node (or left empty), callables registered with  *)
(* register_agent.                                                         *)
(***************************************************************************)
\* a chain of three nodes whose edges are always taken
ChainNodes == <<"input_processing", "analysis", "decision">>

ChainGraph ==
    AddEdges(set_start_node(AddNodes(WorkflowGraph, ChainNodes), "input_processing"),
             << <<"input_processing", "analysis", "always">>,
                <<"analysis", "decision", "always">> >>)

\* two ways to `output`, and an edge between two nodes of one ready set
DiamondGraph ==
    AddEdges(set_start_node(AddNodes(WorkflowGraph,
                 <<"input_processing", "analysis", "decision", "output">>),
                 "input_processing"),
             << <<"input_processing", "analysis", "always">>,
                <<"input_processing", "decision", "always">>,
                <<"analysis", "decision", "always">>,
                <<"analysis", "output", "always">>,
                <<"decision", "output", "always">> >>)

\* a cycle, a self-loop, and a condition outside the built-in list
CycleGraph ==
    AddEdges(set_start_node(AddNodes(WorkflowGraph, <<"analysis", "decision">>),
                 "input_processing"),
             << <<"input_processing", "analysis", "always">>,
                <<"analysis", "input_processing", "always">>,
                <<"analysis", "analysis", "always">>,
                <<"analysis", "decision", "custom">>,
                <<"analysis", "decision", "validation_failed">>,
                <<"decision", "analysis", "always">> >>)

\* an edge to a name that was never added
DanglingGraph ==
    AddEdges(set_start_node(AddNodes(WorkflowGraph,
                 <<"input_processing", "analysis", "output">>),
                 "input_processing"),
             << <<"input_processing", "missing", "always">>,
                <<"input_processing", "analysis", "always">>,
                <<"analysis", "output", "always">> >>)

\* nodes and an edge, no start node
NoStartGraph ==
    AddEdges(AddNodes(WorkflowGraph, <<"input_processing", "analysis">>),
             << <<"input_processing", "analysis", "always">> >>)

Graphs == {WorkflowGraph, ChainGraph, DiamondGraph, CycleGraph, DanglingGraph, NoStartGraph}

\* the example agents, with one callable replaced by one that returns an empty
\* dict, that raises, or that does either or works; or all of them raising
Behaviours(names) ==
    { [n \in names |-> "ok"] }
    \cup { [n \in names |-> IF n = f THEN k ELSE "ok"] :
              f \in names, k \in {"falsy", "raise", "flaky"} }
    \cup { [n \in names |-> "raise"] }

TwoAgents == <<"analysis", "input_processing">>

\* self.agents after the calls of register_agent: nothing registered, the six
\* example agents with at most one replaced, or two callables of any kind
Supervisors ==
    { [agents |-> <<>>, behaviour |-> <<>>] }
    \cup { [agents |-> WorkflowNodes, behaviour |-> b] : b \in Behaviours(Range(WorkflowNodes)) }
    \cup { [agents |-> TwoAgents, behaviour |-> b] :
              b \in [Range(TwoAgents) -> {"ok", "falsy", "raise", "flaky"}] }

InitialInputs ==
    { <<>>,
      [validation_passed |-> FALSE],
      [input_valid |-> TRUE, requires_execution |-> FALSE, ready_for_output |-> TRUE] }

MaxIterationsArgs == {2, 20}

\* LangGraphSupervisorAgent.__init__, no run_workflow running
SupervisorInit ==
    /\ agents = <<>>
    /\ behaviour = <<>>
    /\ graph = WorkflowGraph
    /\ workflow_state = <<>>
    /\ blocked_tasks = <<>>
    /\ wpc = "idle"
    /\ max_iterations = 0
    /\ run_input = <<>>
    /\ iteration = 0
    /\ current_nodes = {}
    /\ next_nodes = <<>>
    /\ completed_nodes = {}
    /\ execution_log = <<>>
    /\ agent_calls = <<>>
    /\ escalation_levels = <<>>

\* a supervisor of the family S with a graph of the family G, no run started
Constructed(G, S) ==
    /\ graph \in G
    /\ \E s \in S :
          /\ agents = s.agents
          /\ behaviour = s.behaviour
    /\ workflow_state = <<>>
    /\ blocked_tasks = <<>>
    /\ wpc = "idle"
    /\ max_iterations = 0
    /\ run_input = <<>>
    /\ iteration = 0
    /\ current_nodes = {}
    /\ next_nodes = <<>>
    /\ completed_nodes = {}
    /\ execution_log = <<>>
    /\ agent_calls = <<>>
    /\ escalation_levels = <<>>

WorkflowInit == Constructed(Graphs, Supervisors)

\* two callables, each of which may return a dict, return an empty one or raise
\* whenever it is invoked; or no callable at all
AnyBehaviour ==
    { [agents |-> <<>>, behaviour |-> <<>>],
      [agents |-> TwoAgents, behaviour |-> [n \in Range(TwoAgents) |-> "flaky"]] }

\* no callable at all, or two of which one raises whenever it is invoked and
\* the other may return a dict, return an empty one or raise
OneFlaky ==
    { [agents |-> <<>>, behaviour |-> <<>>] }
    \cup { [agents |-> TwoAgents,
            behaviour |-> [n \in Range(TwoAgents) |-> IF n = f THEN "flaky" ELSE "raise"]] :
          f \in Range(TwoAgents) }

\* graphs with and without a cycle, with and without a start node
TerminationGraphs == {CycleGraph, DanglingGraph, NoStartGraph}

\* two nodes of one ready set with an edge between them
TriangleGraph ==
    AddEdges(set_start_node(AddNodes(WorkflowGraph,
                 <<"input_processing", "analysis", "decision">>),
                 "input_processing"),
             << <<"input_processing", "analysis", "always">>,
                <<"input_processing", "decision", "always">>,
                <<"analysis", "decision", "always">> >>)

\* a callable registered for each of the three nodes, none of which fails
AllSucceed == { [agents |-> ChainNodes, behaviour |-> [n \in Range(ChainNodes) |-> "ok"]] }

TerminationInit ==
    \/ Constructed(TerminationGraphs, OneFlaky)
    \/ Constructed({TriangleGraph}, AllSucceed)

\* both values of the one guard of these graphs that reads the state
TerminationInputs == { <<>>, [validation_passed |-> TRUE] }

supervisor_vars == <<agents, behaviour>>

\* a run that forgets the nodes it has completed
MarkCompletedNever(completed, node_name) == completed

\* completed_nodes.add(node_name)
MarkCompleted(completed, node_name) == completed \cup {node_name}

\* a loop that does not count its iterations
EndOfIterationUncounted(nexts, it) ==
    LET ready == Range(nexts)
    IN  IF ready # {} /\ it < max_iterations
        THEN [wpc |-> "for", current_nodes |-> ready, iteration |-> it]
        ELSE [wpc |-> "returned", current_nodes |-> {}, iteration |-> it]

\* a while loop without the iteration cap
EndOfIterationUncapped(nexts, it) ==
    LET ready == Range(nexts)
    IN  IF ready # {}
        THEN [wpc |-> "for", current_nodes |-> ready, iteration |-> it + 1]
        ELSE [wpc |-> "returned", current_nodes |-> {}, iteration |-> it]

\* the end of the for loop: list(set(next_nodes)), `if not current_nodes: break`,
\* and the condition of the while loop; the run returns when the loop is left
EndOfIteration(nexts, it) ==
    LET ready == Range(nexts)
    IN  IF ready # {} /\ it < max_iterations
        THEN [wpc |-> "for", current_nodes |-> ready, iteration |-> it + 1]
        ELSE [wpc |-> "returned", current_nodes |-> {}, iteration |-> it]

\* the pass of the for loop is over: on to the next node, or the iteration ends
Advance(rest, nexts) ==
    IF rest # {}
    THEN /\ wpc' = "for"
         /\ current_nodes' = rest
         /\ iteration' = iteration
         /\ next_nodes' = nexts
    ELSE LET e == EndOfIteration(nexts, iteration)
         IN  /\ wpc' = e.wpc
             /\ current_nodes' = e.current_nodes
             /\ iteration' = e.iteration
             /\ next_nodes' = <<>>

\* a run that does not look for the start node
NoStartNodeIgnored(g) == FALSE

\* `if self.graph.start_node is None`
NoStartNode(g) == g.start_node = None

\* run_workflow up to the first pass of its for loop
super_run_workflow(initial_input, max_it) ==
    /\ wpc \in {"idle", "returned", "raised"}
    /\ Len(blocked_tasks) < MaxBlockedTasks
    /\ LET g == IF DOMAIN graph.nodes = {} THEN create_workflow(graph) ELSE graph
       IN  /\ graph' = g
           /\ IF NoStartNode(g)
              THEN /\ wpc' = "raised"
                   /\ current_nodes' = {}
                   /\ iteration' = 0
              ELSE /\ wpc' = IF 0 < max_it THEN "for" ELSE "returned"
                   /\ current_nodes' = IF 0 < max_it THEN {g.start_node} ELSE {}
                   /\ iteration' = IF 0 < max_it THEN 1 ELSE 0
    /\ workflow_state' = initial_input
    /\ max_iterations' = max_it
    /\ run_input' = initial_input
    /\ next_nodes' = <<>>
    /\ completed_nodes' = {}
    /\ execution_log' = <<>>
    /\ agent_calls' = <<>>
    /\ escalation_levels' = <<>>
    /\ UNCHANGED <<supervisor_vars, blocked_tasks>>

\* LangGraphSupervisorAgent.run_workflow called on a LangGraphSupervisorAgent
run_workflow(initial_input, max_it) ==
    /\ super_run_workflow(initial_input, max_it)
    /\ UNCHANGED <<recovery_vars, basic_vars, guard_vars, detector_vars, bus_vars, caller_vars>>

\* `if node_name in completed_nodes: continue`
super_SkipCompleted(node_name) ==
    /\ wpc = "for"
    /\ node_name \in current_nodes
    /\ node_name \in completed_nodes
    /\ Advance(current_nodes \ {node_name}, next_nodes)
    /\ UNCHANGED <<supervisor_vars, graph, workflow_state, blocked_tasks, max_iterations,
                   run_input, completed_nodes, execution_log, agent_calls,
                   escalation_levels>>

\* the pass of a LangGraphSupervisorAgent over a completed node
SkipCompleted(node_name) ==
    /\ super_SkipCompleted(node_name)
    /\ UNCHANGED <<recovery_vars, basic_vars, guard_vars, detector_vars, bus_vars, caller_vars>>

LogEntry(it, node_name, status, result) ==
    [iteration |-> it, node |-> node_name, status |-> status, result |-> result]

\* lines 301-320: the node is executed, logged as completed, its successors collected
super_ExecuteNode(node_name) ==
    /\ wpc = "for"
    /\ node_name \in current_nodes
    /\ node_name \notin completed_nodes
    /\ node_name \in DOMAIN graph.nodes
    /\ \E o1 \in IF Registered(node_name) THEN OutcomesOf(node_name) ELSE {"raise"},
          o2 \in IF Registered(node_name) THEN OutcomesOf(node_name) ELSE {"raise"},
          o3 \in IF alternative_nodes(node_name) # <<>>
                 THEN OutcomesOf(Head(alternative_nodes(node_name))) ELSE {"raise"} :
          LET r == execute_node(node_name, workflow_state, blocked_tasks, agent_calls,
                                o1, o2, o3)
              state2 == Put(r.workflow_state, node_name \o "_result", r.result)
              completed2 == MarkCompleted(completed_nodes, node_name)
              next_candidates == get_next_nodes(graph, state2, node_name)
              nexts == next_nodes \o SelectSeq(next_candidates,
                                               LAMBDA next_node : next_node \notin completed2)
          IN  /\ graph' = [graph EXCEPT !.nodes[node_name] = r.state]
              /\ workflow_state' = state2
              /\ blocked_tasks' = r.blocked_tasks
              /\ agent_calls' = r.agent_calls
              /\ escalation_levels' = IF r.levels = <<>> THEN escalation_levels
                                      ELSE Append(escalation_levels, r.levels)
              /\ execution_log' = Append(execution_log,
                                         LogEntry(iteration, node_name, "completed", r.result))
              /\ completed_nodes' = completed2
              /\ Advance(current_nodes \ {node_name}, nexts)
    /\ UNCHANGED <<supervisor_vars, max_iterations, run_input>>

\* the pass of a LangGraphSupervisorAgent over a node of the graph
ExecuteNode(node_name) ==
    /\ super_ExecuteNode(node_name)
    /\ UNCHANGED <<recovery_vars, basic_vars, guard_vars, detector_vars, bus_vars, caller_vars>>

\* a for loop that lets the exceptions through
CaughtInLoopNever(exception) == FALSE

\* `except Exception` in the for loop: every exception but the ones that derive
\* from BaseException only
CaughtInLoop(exception) == exception \notin {"KeyboardInterrupt", "SystemExit"}

\* a for loop that goes on with the rest of the ready set after a failure
RemainingAfterFailureKept(rest) == rest

\* `break` in the except branch: the rest of the ready set is not dispatched
RemainingAfterFailure(rest) == {}

\* lines 322-330: self.graph.nodes[node_name] raises KeyError; logged as failed, break
super_DispatchUnknown(node_name) ==
    /\ wpc = "for"
    /\ node_name \in current_nodes
    /\ node_name \notin completed_nodes
    /\ node_name \notin DOMAIN graph.nodes
    /\ IF CaughtInLoop("KeyError")
       THEN /\ execution_log' = Append(execution_log,
                                       LogEntry(iteration, node_name, "failed",
                                                NodeResult(None, "KeyError", node_name, FALSE)))
            /\ Advance(RemainingAfterFailure(current_nodes \ {node_name}), next_nodes)
       ELSE /\ wpc' = "raised"
            /\ UNCHANGED <<execution_log, current_nodes, iteration, next_nodes>>
    /\ UNCHANGED <<supervisor_vars, graph, workflow_state, blocked_tasks, max_iterations,
                   run_input, completed_nodes, agent_calls, escalation_levels>>

\* the pass of a LangGraphSupervisorAgent over a name the graph does not hold
DispatchUnknown(node_name) ==
    /\ super_DispatchUnknown(node_name)
    /\ UNCHANGED <<recovery_vars, basic_vars, guard_vars, detector_vars, bus_vars, caller_vars>>

NodeNames == Range(WorkflowNodes) \cup {"missing"}

WorkflowNext ==
    \/ \E initial_input \in InitialInputs, max_it \in MaxIterationsArgs :
          run_workflow(initial_input, max_it)
    \/ \E node_name \in NodeNames : SkipCompleted(node_name)
    \/ \E node_name \in NodeNames : ExecuteNode(node_name)
    \/ \E node_name \in NodeNames : DispatchUnknown(node_name)

(***************************************************************************)
(* SupervisorAgent (supervisor_agent.py).  run_workflow is a for loop over *)
(* at most max_steps steps; a step picks the next registered callable in   *)
(* registration order (round robin), invokes it and appends what           *)
(* execute_agent returns.  A failed step starts handle_blocked_task: the   *)
(* task is appended to self.blocked_tasks at LEVEL_1 and _escalate_task    *)
(* hands it to the handler of its level, which returns a result or changes *)
(* the level and calls _escalate_task again.  One step of the model is one *)
(* pass of the loop body up to the call of handle_blocked_task, or one     *)
(* call of _escalate_task.                                                 *)
(***************************************************************************)
\* what a callable registered with a SupervisorAgent does when invoked: returns
\* a dict, returns a dict with a true "completed", or raises
SupOutcomes == {"ok", "completed", "raise"}

SupOutcomesOf(name) ==
    IF sup_behaviour[name] = "flaky" THEN SupOutcomes ELSE {sup_behaviour[name]}

\* a dict returned by execute_agent or by the level-3 handler: its "agent" and
\* "status" keys (None when absent) and whether result["result"]["completed"]
\* is true
SupResult(agent, status, completed) ==
    [agent |-> agent, status |-> status, completed |-> completed]

\* BlockedTask(task_id, agent_name, error, LEVEL_1, context=context)
SupBlockedTask(step, agent_name) ==
    [task_id |-> <<"task", step, agent_name>>, agent_name |-> agent_name,
     escalation_level |-> LEVEL_1, retry_count |-> 0,
     max_retries |-> BlockedTaskMaxRetries]

\* agents.index(context["last_agent"]) raises ValueError
decide_next_agent_raises(context) ==
    /\ sup_agents # <<>>
    /\ "last_agent" \in DOMAIN context
    /\ context["last_agent"] \notin Range(sup_agents)

\* SupervisorAgent.decide_next_agent
decide_next_agent(context) ==
    IF sup_agents = <<>> THEN "no_agent"
    ELSE IF "last_agent" \in DOMAIN context
         THEN LET last_idx == CHOOSE i \in 1..Len(sup_agents) :
                                 /\ sup_agents[i] = context["last_agent"]
                                 /\ \A j \in 1..(i - 1) : sup_agents[j] # context["last_agent"]
              IN  sup_agents[(last_idx % Len(sup_agents)) + 1]
         ELSE sup_agents[1]

\* SupervisorAgent.execute_agent, o what the callable does
execute_agent(agent_name, o) ==
    IF agent_name \notin Range(sup_agents)
    THEN SupResult(None, None, FALSE)
    ELSE IF o = "raise"
         THEN SupResult(agent_name, "failed", FALSE)
         ELSE SupResult(agent_name, "success", o = "completed")

\* one invocation of a registered callable, as observed: `at` is the length of
\* `results` when it is made, `input_data` the dict it is called with (the
\* run's `context`, directly or as blocked_task.context), as it is at the call
SupInvocation(agent_name, via, o) ==
    [agent |-> agent_name, via |-> via, outcome |-> o, at |-> Len(sup_results),
     input_data |-> sup_context]

\* the calls made when execute_agent(agent_name, ...) runs
SupCalled(agent_name, via, o) ==
    IF agent_name \in Range(sup_agents)
    THEN Append(sup_calls, SupInvocation(agent_name, via, o))
    ELSE sup_calls

\* an entry of `results`: the dict and the line of run_workflow that appended it
SupEntry(result, line) ==
    [agent |-> result.agent, status |-> result.status, completed |-> result.completed,
     line |-> line]

\* a run that goes on whatever the escalation returned
StopsOnEscalatedNever(escalation_result) == FALSE

\* `if escalation_result.get("status") == "escalated": break`
StopsOnEscalated(escalation_result) == escalation_result.status = "escalated"

\* the loop body is left with or without `break`
SupEndOfStep(break) ==
    IF break \/ sup_step + 1 >= sup_max_steps
    THEN /\ sup_pc' = "returned"
         /\ sup_step' = sup_step
    ELSE /\ sup_pc' = "loop"
         /\ sup_step' = sup_step + 1

\* SupervisorAgent.run_workflow up to the first pass of its loop
SupervisorAgent_run_workflow(initial_input, max_steps) ==
    /\ sup_pc \in {"idle", "returned", "raised"}
    /\ Len(sup_blocked_tasks) < MaxBlockedTasks
    /\ sup_results' = <<>>
    /\ sup_context' = initial_input
    /\ sup_max_steps' = max_steps
    /\ sup_step' = 0
    /\ sup_pc' = IF 0 < max_steps THEN "loop" ELSE "returned"
    /\ sup_calls' = <<>>
    /\ UNCHANGED <<sup_agents, sup_behaviour, sup_blocked_tasks>>
    /\ UNCHANGED <<recovery_vars, workflow_vars, guard_vars, detector_vars, bus_vars, caller_vars>>

\* lines 81-96 and 104-105: the next agent is decided and executed, its result
\* appended; a failed one becomes a blocked task
SupervisorAgent_step ==
    /\ sup_pc = "loop"
    /\ IF decide_next_agent_raises(sup_context)
       THEN /\ sup_pc' = "raised"
            /\ UNCHANGED <<sup_blocked_tasks, sup_step, sup_context, sup_results, sup_calls>>
       ELSE LET next_agent == decide_next_agent(sup_context)
            IN  \E o \in IF next_agent \in Range(sup_agents)
                         THEN SupOutcomesOf(next_agent) ELSE {"raise"} :
                   LET result == execute_agent(next_agent, o)
                   IN  /\ sup_calls' = SupCalled(next_agent, "step", o)
                       /\ sup_results' = Append(sup_results, SupEntry(result, 85))
                       /\ sup_context' = Put(Put(sup_context, "last_agent", next_agent),
                                             "step", sup_step + 1)
                       /\ IF result.status = "failed"
                          THEN /\ sup_blocked_tasks' =
                                     Append(sup_blocked_tasks,
                                            SupBlockedTask(sup_step, next_agent))
                               /\ sup_pc' = "escalate"
                               /\ sup_step' = sup_step
                          ELSE /\ sup_blocked_tasks' = sup_blocked_tasks
                               /\ SupEndOfStep(result.completed)
    /\ UNCHANGED <<sup_agents, sup_behaviour, sup_max_steps>>
    /\ UNCHANGED <<recovery_vars, workflow_vars, guard_vars, detector_vars, bus_vars, caller_vars>>

\* the task handle_blocked_task is escalating: the one it appended
SupTask == sup_blocked_tasks[Len(sup_blocked_tasks)]

\* handle_blocked_task returns escalation_result to run_workflow (lines 97-105);
\* `result`, the failed step's dict, has no "result" key
SupEscalationReturns(escalation_result) ==
    /\ sup_results' = Append(sup_results, SupEntry(escalation_result, 97))
    /\ SupEndOfStep(StopsOnEscalated(escalation_result))

\* the level a failed retry moves the task to
AfterLevel1 == LEVEL_2

\* a level-2 handler that hands the task back to level 1
AfterLevel2Back == LEVEL_1

\* the level a failed alternative moves the task to
AfterLevel2 == LEVEL_3

\* SupervisorAgent._escalate_task on a task at LEVEL_1: _handle_level1_escalation
SupervisorAgent_level1 ==
    /\ sup_pc = "escalate"
    /\ SupTask.escalation_level = LEVEL_1
    /\ IF SupTask.retry_count < SupTask.max_retries
       THEN LET retried == [SupTask EXCEPT !.retry_count = @ + 1]
            IN  \E o \in SupOutcomesOf(SupTask.agent_name) :
                   LET result == execute_agent(SupTask.agent_name, o)
                   IN  /\ sup_calls' = SupCalled(SupTask.agent_name, "retry", o)
                       /\ IF result.status = "success"
                          THEN /\ sup_blocked_tasks' =
                                     RemoveFirst(Mutated(sup_blocked_tasks, SupTask, retried),
                                                 retried)
                               /\ SupEscalationReturns(result)
                          ELSE /\ sup_blocked_tasks' =
                                     Mutated(sup_blocked_tasks, SupTask,
                                             [retried EXCEPT !.escalation_level = AfterLevel1])
                               /\ UNCHANGED <<sup_pc, sup_step, sup_results>>
       ELSE /\ sup_blocked_tasks' =
                  Mutated(sup_blocked_tasks, SupTask,
                          [SupTask EXCEPT !.escalation_level = AfterLevel1])
            /\ UNCHANGED <<sup_pc, sup_step, sup_results, sup_calls>>
    /\ UNCHANGED <<sup_agents, sup_behaviour, sup_max_steps, sup_context>>
    /\ UNCHANGED <<recovery_vars, workflow_vars, guard_vars, detector_vars, bus_vars, caller_vars>>

\* SupervisorAgent._escalate_task on a task at LEVEL_2: _handle_level2_escalation
SupervisorAgent_level2 ==
    /\ sup_pc = "escalate"
    /\ SupTask.escalation_level = LEVEL_2
    /\ LET alternative_agents ==
               SelectSeq(sup_agents, LAMBDA name : name # SupTask.agent_name)
           escalated == Mutated(sup_blocked_tasks, SupTask,
                                [SupTask EXCEPT !.escalation_level = AfterLevel2])
       IN  IF alternative_agents # <<>>
           THEN LET alternative_agent == Head(alternative_agents)
                IN  \E o \in SupOutcomesOf(alternative_agent) :
                       LET result == execute_agent(alternative_agent, o)
                       IN  /\ sup_calls' = SupCalled(alternative_agent, "alternative", o)
                           /\ IF result.status = "success"
                              THEN /\ sup_blocked_tasks' =
                                         RemoveFirst(sup_blocked_tasks, SupTask)
                                   /\ SupEscalationReturns(result)
                              ELSE /\ sup_blocked_tasks' = escalated
                                   /\ UNCHANGED <<sup_pc, sup_step, sup_results>>
           ELSE /\ sup_blocked_tasks' = escalated
                /\ UNCHANGED <<sup_pc, sup_step, sup_results, sup_calls>>
    /\ UNCHANGED <<sup_agents, sup_behaviour, sup_max_steps, sup_context>>
    /\ UNCHANGED <<recovery_vars, workflow_vars, guard_vars, detector_vars, bus_vars, caller_vars>>

\* SupervisorAgent._escalate_task on a task at LEVEL_3: _handle_level3_escalation
SupervisorAgent_level3 ==
    /\ sup_pc = "escalate"
    /\ SupTask.escalation_level = LEVEL_3
    /\ SupEscalationReturns(SupResult(None, "escalated", FALSE))
    /\ UNCHANGED <<sup_agents, sup_behaviour, sup_blocked_tasks, sup_max_steps,
                   sup_context, sup_calls>>
    /\ UNCHANGED <<recovery_vars, workflow_vars, guard_vars, detector_vars, bus_vars, caller_vars>>

\* SupervisorAgent(), nothing registered, no run_workflow running
SupervisorAgentInit ==
    /\ sup_agents = <<>>
    /\ sup_behaviour = <<>>
    /\ sup_blocked_tasks = <<>>
    /\ sup_pc = "idle"
    /\ sup_max_steps = 0
    /\ sup_step = 0
    /\ sup_context = <<>>
    /\ sup_results = <<>>
    /\ sup_calls = <<>>

\* the names of the example agents, in the order they are registered
SupAgentNames == <<"analyzer", "processor", "validator">>

\* self.agents after the calls of register_agent: none, one, two or three
\* callables, each of any kind
SupervisorAgents ==
    UNION { { [agents |-> SubSeq(SupAgentNames, 1, n), behaviour |-> b] :
                 b \in [Range(SubSeq(SupAgentNames, 1, n)) ->
                           {"ok", "completed", "raise", "flaky"}] } :
            n \in 0..Len(SupAgentNames) }

\* a SupervisorAgent with callables of the family S registered, no run started
SupConstructed(S) ==
    /\ \E s \in S :
          /\ sup_agents = s.agents
          /\ sup_behaviour = s.behaviour
    /\ sup_blocked_tasks = <<>>
    /\ sup_pc = "idle"
    /\ sup_max_steps = 0
    /\ sup_step = 0
    /\ sup_context = <<>>
    /\ sup_results = <<>>
    /\ sup_calls = <<>>

\* a SupervisorAgent with its callables registered, no run started
SupervisorAgentConstructed == SupConstructed(SupervisorAgents)

\* initial_input: without and with a "last_agent" key
SupInitialInputs == { <<>>, [last_agent |-> "processor"] }

MaxStepsArgs == {0, 1, 3}

SupervisorAgentNext ==
    \/ \E initial_input \in SupInitialInputs, max_steps \in MaxStepsArgs :
          SupervisorAgent_run_workflow(initial_input, max_steps)
    \/ SupervisorAgent_step
    \/ SupervisorAgent_level1
    \/ SupervisorAgent_level2
    \/ SupervisorAgent_level3

(***************************************************************************)
(* Guard evaluation.  A client of a constructed supervisor, with no run    *)
(* going on, asks evaluate_condition for a guard twice in a row, or asks   *)
(* get_next_nodes for the successors of a node; what it was answered and   *)
(* the workflow state it finds afterwards are kept in guard_obs.           *)
(***************************************************************************)
\* the dict d after d.setdefault(k, default)
AfterSetdefault(d, k, default) == IF k \in DOMAIN d THEN d ELSE Put(d, k, default)

\* the dict d after d.get(k, default)
AfterGet(d, k, default) == d

\* the conditions evaluate_condition has a branch for
BuiltinConditions ==
    {"always", "input_valid", "analysis_complete", "requires_execution",
     "ready_for_output", "execution_complete", "validation_passed", "validation_failed"}

\* the dict `context` after evaluate_condition(condition, context)
ContextAfterCondition(condition, context) ==
    CASE condition = "always" -> context
      [] condition = "input_valid" -> AfterGet(context, "input_valid", TRUE)
      [] condition = "analysis_complete" -> AfterGet(context, "analysis_complete", TRUE)
      [] condition = "requires_execution" -> AfterGet(context, "requires_execution", TRUE)
      [] condition = "ready_for_output" -> AfterGet(context, "ready_for_output", FALSE)
      [] condition = "execution_complete" -> AfterGet(context, "execution_complete", FALSE)
      [] condition = "validation_passed" -> AfterGet(context, "validation_passed", TRUE)
      [] condition = "validation_failed" -> AfterGet(context, "validation_passed", FALSE)
      [] OTHER -> context

\* self.workflow_state after the for loop of get_next_nodes(current_node)
RECURSIVE ContextAfterNextNodes(_, _, _)
ContextAfterNextNodes(es, context, current_node) ==
    IF es = <<>> THEN context
    ELSE ContextAfterNextNodes(
             Tail(es),
             IF Head(es).from_node = current_node
             THEN ContextAfterCondition(Head(es).condition, context)
             ELSE context,
             current_node)

NoGuardCall == [op |-> None]

\* evaluate_condition(condition, self.workflow_state), called twice in a row
EvaluateTwice(condition) ==
    /\ wpc = "idle"
    /\ LET once == ContextAfterCondition(condition, workflow_state)
           twice == ContextAfterCondition(condition, once)
       IN  /\ guard_obs' = [op |-> "evaluate_condition", arg |-> condition,
                            context |-> workflow_state,
                            value |-> evaluate_condition(condition, workflow_state),
                            again |-> evaluate_condition(condition, once),
                            after |-> twice]
           /\ workflow_state' = twice
    /\ UNCHANGED <<supervisor_vars, graph, blocked_tasks, wpc, max_iterations, run_input,
                   iteration, current_nodes, next_nodes, completed_nodes, execution_log,
                   agent_calls, escalation_levels>>
    /\ UNCHANGED <<recovery_vars, basic_vars, detector_vars, bus_vars, caller_vars>>

\* get_next_nodes(current_node), called twice in a row
NextNodesTwice(current_node) ==
    /\ wpc = "idle"
    /\ LET once == ContextAfterNextNodes(graph.edges, workflow_state, current_node)
           twice == ContextAfterNextNodes(graph.edges, once, current_node)
       IN  /\ guard_obs' = [op |-> "get_next_nodes", arg |-> current_node,
                            context |-> workflow_state,
                            value |-> get_next_nodes(graph, workflow_state, current_node),
                            again |-> get_next_nodes(graph, once, current_node),
                            after |-> twice]
           /\ workflow_state' = twice
    /\ UNCHANGED <<supervisor_vars, graph, blocked_tasks, wpc, max_iterations, run_input,
                   iteration, current_nodes, next_nodes, completed_nodes, execution_log,
                   agent_calls, escalation_levels>>
    /\ UNCHANGED <<recovery_vars, basic_vars, detector_vars, bus_vars, caller_vars>>

\* the keys the built-in conditions read
GuardKeys ==
    {"input_valid", "analysis_complete", "requires_execution", "ready_for_output",
     "execution_complete", "validation_passed"}

\* the workflow states the client has filled: any of the keys, true or false
GuardStates == UNION { [keys -> BOOLEAN] : keys \in SUBSET GuardKeys }

\* the guards the client asks for: the built-in ones and two others
GuardConditions == BuiltinConditions \cup {"custom", ""}

GuardIdle == guard_obs = NoGuardCall

GuardNext ==
    \/ \E condition \in GuardConditions : EvaluateTwice(condition)
    \/ \E current_node \in NodeNames : NextNodesTwice(current_node)

(***************************************************************************)
(* StuckIssueDetector (stuck_issue_detector.py).  The clients report the   *)
(* start, the progress and the completion of agents and workflows; the     *)
(* monitoring thread makes one pass of _monitoring_loop after another, and *)
(* wall_clock advances between any two of these steps.  A dict the checks  *)
(* iterate over is a list of items, in the order the keys were inserted.   *)
(***************************************************************************)
ItemKeys(d) == {d[i].key : i \in 1..Len(d)}

\* d[k]
ItemValue(d, k) == d[CHOOSE i \in 1..Len(d) : d[i].key = k].value

\* d[k] = v: a key that is already there keeps its place
SetItem(d, k, v) ==
    IF k \in ItemKeys(d)
    THEN [i \in 1..Len(d) |-> IF d[i].key = k THEN [key |-> k, value |-> v] ELSE d[i]]
    ELSE Append(d, [key |-> k, value |-> v])

\* d.pop(k, None)
PopItem(d, k) == SelectSeq(d, LAMBDA item : item.key # k)

\* StuckIssueType.TIMEOUT, .BLOCKED, .NO_PROGRESS
ISSUE_TIMEOUT == "timeout"
ISSUE_BLOCKED == "blocked"
ISSUE_NO_PROGRESS == "no_progress"

\* IssueSeverity
MEDIUM == "medium"
HIGH == "high"
CRITICAL == "critical"

\* StuckIssue(...); issue_id is the f-string of a prefix, a name and the second
StuckIssue(prefix, issue_type, severity, agent_name, workflow_id, detected_at) ==
    [issue_id |-> <<prefix, IF issue_type = ISSUE_BLOCKED THEN workflow_id ELSE agent_name,
                    detected_at>>,
     issue_type |-> issue_type, severity |-> severity, agent_name |-> agent_name,
     workflow_id |-> workflow_id, detected_at |-> detected_at]

\* StuckIssueDetector.agent_started
agent_started(agent_name) ==
    /\ agent_start_times' = SetItem(agent_start_times, agent_name, wall_clock)
    /\ agent_last_progress' = SetItem(agent_last_progress, agent_name, wall_clock)
    /\ agent_iteration_counts' = SetItem(agent_iteration_counts, agent_name, 0)
    /\ UNCHANGED <<wall_clock, timeout_threshold, max_iterations_without_progress,
                   workflow_tracking, detected_issues, issue_callbacks, callback_calls,
                   monitor_errors, passes>>
    /\ UNCHANGED <<recovery_vars, workflow_vars, basic_vars, guard_vars, bus_vars, caller_vars>>

\* StuckIssueDetector.agent_progress
agent_progress(agent_name) ==
    /\ agent_name \in ItemKeys(agent_iteration_counts) =>
           ItemValue(agent_iteration_counts, agent_name) < MaxIterationCount
    /\ agent_last_progress' = SetItem(agent_last_progress, agent_name, wall_clock)
    /\ agent_iteration_counts' =
           IF agent_name \in ItemKeys(agent_iteration_counts)
           THEN SetItem(agent_iteration_counts, agent_name,
                        ItemValue(agent_iteration_counts, agent_name) + 1)
           ELSE SetItem(agent_iteration_counts, agent_name, 1)
    /\ UNCHANGED <<wall_clock, timeout_threshold, max_iterations_without_progress,
                   agent_start_times, workflow_tracking, detected_issues, issue_callbacks,
                   callback_calls, monitor_errors, passes>>
    /\ UNCHANGED <<recovery_vars, workflow_vars, basic_vars, guard_vars, bus_vars, caller_vars>>

\* StuckIssueDetector.agent_completed
agent_completed(agent_name) ==
    /\ agent_start_times' = PopItem(agent_start_times, agent_name)
    /\ agent_last_progress' = PopItem(agent_last_progress, agent_name)
    /\ agent_iteration_counts' = PopItem(agent_iteration_counts, agent_name)
    /\ UNCHANGED <<wall_clock, timeout_threshold, max_iterations_without_progress,
                   workflow_tracking, detected_issues, issue_callbacks, callback_calls,
                   monitor_errors, passes>>
    /\ UNCHANGED <<recovery_vars, workflow_vars, basic_vars, guard_vars, bus_vars, caller_vars>>

\* StuckIssueDetector.workflow_started ('started_at', which nothing reads, is
\* left out of the entry)
workflow_started(workflow_id, initial_state) ==
    /\ workflow_tracking' =
           SetItem(workflow_tracking, workflow_id,
                   [last_progress |-> wall_clock, completed_nodes |-> <<>>,
                    total_iterations |-> 0, state |-> initial_state])
    /\ UNCHANGED <<wall_clock, timeout_threshold, max_iterations_without_progress,
                   agent_start_times, agent_last_progress, agent_iteration_counts,
                   detected_issues, issue_callbacks, callback_calls, monitor_errors, passes>>
    /\ UNCHANGED <<recovery_vars, workflow_vars, basic_vars, guard_vars, bus_vars, caller_vars>>

\* StuckIssueDetector.workflow_progress
workflow_progress(workflow_id, completed_node, iteration_arg) ==
    /\ workflow_id \in ItemKeys(workflow_tracking) =>
           Len(ItemValue(workflow_tracking, workflow_id).completed_nodes) < MaxCompletedNodes
    /\ workflow_tracking' =
           IF workflow_id \in ItemKeys(workflow_tracking)
           THEN LET data == ItemValue(workflow_tracking, workflow_id)
                IN  SetItem(workflow_tracking, workflow_id,
                            [data EXCEPT !.last_progress = wall_clock,
                                         !.completed_nodes = Append(@, completed_node),
                                         !.total_iterations = iteration_arg])
           ELSE workflow_tracking
    /\ UNCHANGED <<wall_clock, timeout_threshold, max_iterations_without_progress,
                   agent_start_times, agent_last_progress, agent_iteration_counts,
                   detected_issues, issue_callbacks, callback_calls, monitor_errors, passes>>
    /\ UNCHANGED <<recovery_vars, workflow_vars, basic_vars, guard_vars, bus_vars, caller_vars>>

\* StuckIssueDetector.workflow_completed
workflow_completed(workflow_id) ==
    /\ workflow_tracking' = PopItem(workflow_tracking, workflow_id)
    /\ UNCHANGED <<wall_clock, timeout_threshold, max_iterations_without_progress,
                   agent_start_times, agent_last_progress, agent_iteration_counts,
                   detected_issues, issue_callbacks, callback_calls, monitor_errors, passes>>
    /\ UNCHANGED <<recovery_vars, workflow_vars, basic_vars, guard_vars, bus_vars, caller_vars>>

\* StuckIssueRecovery.handle_issue, its strategy for the type of the issue
\* being one that returns, one that raises, or None
handle_issue(strategy, issue) ==
    IF strategy # None
    THEN IF strategy = "raise"
         THEN [raised |-> FALSE, value |-> FALSE]
         ELSE [raised |-> FALSE, value |-> TRUE]
    ELSE [raised |-> FALSE, value |-> FALSE]

\* callback(issue): a function that returns, one that raises, or handle_issue
\* of a StuckIssueRecovery
Callback(callback, issue) ==
    CASE callback = "ok" -> [raised |-> FALSE, value |-> None]
      [] callback = "raise" -> [raised |-> TRUE, value |-> "Exception"]
      [] callback = "handle_issue" -> handle_issue("ok", issue)
      [] callback = "handle_issue_raise" -> handle_issue("raise", issue)

CaughtInReportNever(exception) == FALSE

\* `except Exception` around callback(issue)
CaughtInReport(exception) == exception \notin {"KeyboardInterrupt", "SystemExit"}

\* what a pass of the monitoring loop has done so far: the issues recorded,
\* the callbacks invoked, and the exception that is on its way up, if any
Pass(issues, calls, raised) == [issues |-> issues, calls |-> calls, raised |-> raised]

\* the for loop of _report_issue over self.issue_callbacks, from the k-th on
RECURSIVE InvokeCallbacks(_, _, _)
InvokeCallbacks(pass, issue, k) ==
    IF k > Len(issue_callbacks) THEN pass
    ELSE LET answer == Callback(issue_callbacks[k], issue)
             called == [pass EXCEPT !.calls =
                           Append(@, [callback |-> k, issue_id |-> issue.issue_id,
                                      raised |-> answer.raised])]
         IN  IF answer.raised /\ ~CaughtInReport(answer.value)
             THEN [called EXCEPT !.raised = answer.value]
             ELSE InvokeCallbacks(called, issue, k + 1)

\* the key an issue is compared by with the recent ones
DuplicateKey(issue) == <<issue.agent_name, issue.issue_type>>

DuplicateKeyWithWorkflow(issue) == <<issue.agent_name, issue.issue_type, issue.workflow_id>>

RecentNever(i, t) == FALSE

\* is the issue i closer than the window to the second t

Recent(i, t) == t - i.detected_at < RecentSeconds

\* StuckIssueDetector._report_issue, called at the second t
_report_issue(pass, issue, t) ==
    IF pass.raised # None THEN pass
    ELSE LET recent_issues ==
                 SelectSeq(pass.issues,
                           LAMBDA i : /\ DuplicateKey(i) = DuplicateKey(issue)
                                      /\ Recent(i, t))
         IN  IF recent_issues = <<>>
             THEN InvokeCallbacks([pass EXCEPT !.issues = Append(@, issue)], issue, 1)
             ELSE pass

\* StuckIssueDetector._check_for_timeout_issues: its for loop over the items
RECURSIVE _check_for_timeout_issues(_, _, _)
_check_for_timeout_issues(pass, items, t) ==
    IF items = <<>> THEN pass
    ELSE LET agent_name == Head(items).key
             elapsed == t - Head(items).value
         IN  _check_for_timeout_issues(
                 IF elapsed > timeout_threshold
                 THEN _report_issue(pass,
                                    StuckIssue("timeout", ISSUE_TIMEOUT, HIGH, agent_name,
                                               "unknown", t), t)
                 ELSE pass,
                 Tail(items), t)

\* StuckIssueDetector._check_for_no_progress_issues
RECURSIVE _check_for_no_progress_issues(_, _, _)
_check_for_no_progress_issues(pass, items, t) ==
    IF items = <<>> THEN pass
    ELSE LET agent_name == Head(items).key
             elapsed == t - Head(items).value
         IN  _check_for_no_progress_issues(
                 IF /\ agent_name \in ItemKeys(agent_iteration_counts)
                    /\ elapsed > timeout_threshold
                    /\ agent_name \in ItemKeys(agent_start_times)
                 THEN _report_issue(pass,
                                    StuckIssue("no_progress", ISSUE_NO_PROGRESS, MEDIUM, agent_name,
                                               "unknown", t), t)
                 ELSE pass,
                 Tail(items), t)

\* StuckIssueDetector._check_for_blocked_issues
RECURSIVE _check_for_blocked_issues(_, _, _)
_check_for_blocked_issues(pass, items, t) ==
    IF items = <<>> THEN pass
    ELSE LET workflow_id == Head(items).key
             elapsed == t - Head(items).value.last_progress
         IN  _check_for_blocked_issues(
                 IF /\ elapsed > timeout_threshold
                    /\ Head(items).value.total_iterations > max_iterations_without_progress
                 THEN _report_issue(pass,
                                    StuckIssue("blocked_workflow", ISSUE_BLOCKED, CRITICAL,
                                               "workflow_supervisor", workflow_id, t), t)
                 ELSE pass,
                 Tail(items), t)

\* one pass of the while loop of _monitoring_loop: the three checks; an
\* exception that comes out of one of them skips the rest and is logged
_monitoring_loop ==
    LET timeouts == _check_for_timeout_issues(Pass(detected_issues, callback_calls, None),
                                              agent_start_times, wall_clock)
        no_progress == IF timeouts.raised # None THEN timeouts
                       ELSE _check_for_no_progress_issues(timeouts, agent_last_progress,
                                                          wall_clock)
        blocked == IF no_progress.raised # None THEN no_progress
                   ELSE _check_for_blocked_issues(no_progress, workflow_tracking, wall_clock)
    IN  /\ detected_issues' = blocked.issues
        /\ callback_calls' = blocked.calls
        /\ monitor_errors' = (blocked.raised # None)
        /\ passes' = 1 - passes
        /\ UNCHANGED <<wall_clock, timeout_threshold, max_iterations_without_progress,
                       agent_start_times, agent_last_progress, agent_iteration_counts,
                       workflow_tracking, issue_callbacks>>
        /\ UNCHANGED <<recovery_vars, workflow_vars, basic_vars, guard_vars, bus_vars, caller_vars>>

\* StuckIssueDetector.get_active_issues at the second t
get_active_issues(issues, t) ==
    SelectSeq(issues, LAMBDA issue : issue.detected_at > t - HourSeconds)

\* time passes
Elapse(seconds) ==
    /\ wall_clock + seconds <= MaxClock
    /\ wall_clock' = wall_clock + seconds
    /\ UNCHANGED <<timeout_threshold, max_iterations_without_progress,
                   agent_start_times, agent_last_progress, agent_iteration_counts,
                   workflow_tracking, detected_issues, issue_callbacks, callback_calls,
                   monitor_errors, passes>>
    /\ UNCHANGED <<recovery_vars, workflow_vars, basic_vars, guard_vars, bus_vars, caller_vars>>

\* StuckIssueDetector(timeout_threshold, _, max_iterations_without_progress)
\* after the calls of register_issue_callback
StuckIssueDetector(threshold, max_without_progress, callbacks) ==
    /\ wall_clock = 0
    /\ timeout_threshold = threshold
    /\ max_iterations_without_progress = max_without_progress
    /\ agent_start_times = <<>>
    /\ agent_last_progress = <<>>
    /\ agent_iteration_counts = <<>>
    /\ workflow_tracking = <<>>
    /\ detected_issues = <<>>
    /\ issue_callbacks = callbacks
    /\ callback_calls = <<>>
    /\ monitor_errors = FALSE
    /\ passes = 0

\* StuckIssueDetector() with its default arguments
DetectorIdle == StuckIssueDetector(300, 10, <<>>)

\* the callbacks registered: a function that raises, then handle_issue of a
\* recovery (as in the demonstrations) and of one whose strategy raises, then
\* a logging function
CallbackLists ==
    { <<"raise", "handle_issue", "handle_issue_raise", "ok">> }

\* the detector of the demonstrations (thresholds of 5 seconds and 3
\* iterations) with callbacks registered
DetectorConstructed ==
    \E callbacks \in CallbackLists : StuckIssueDetector(5, 3, callbacks)

DetectorAgents == {"agent1"}

DetectorWorkflows == {"workflow1", "workflow2"}

\* the seconds between two steps: just inside the window of _report_issue,
\* and just outside
Pauses == {59, 60}

DetectorNext ==
    \/ \E agent_name \in DetectorAgents : agent_started(agent_name)
    \/ \E agent_name \in DetectorAgents : agent_progress(agent_name)
    \/ \E agent_name \in DetectorAgents : agent_completed(agent_name)
    \/ \E workflow_id \in DetectorWorkflows : workflow_started(workflow_id, <<>>)
    \/ \E workflow_id \in DetectorWorkflows : workflow_progress(workflow_id, "analysis", 4)
    \/ \E workflow_id \in DetectorWorkflows : workflow_completed(workflow_id)
    \/ _monitoring_loop
    \/ \E seconds \in Pauses : Elapse(seconds)

(***************************************************************************)
(* MessageBus (src/agent_communication/message_bus.py).  subscribe,        *)
(* unsubscribe, publish, start and stop are the calls of the agents; the   *)
(* worker task takes one message at a time from the queue and delivers it. *)
(* A Subscription or a Message is told from the others by the number it    *)
(* was created with (the identity of the object, the uuid of the message). *)
(***************************************************************************)
_max_history_size == 1000

\* Subscription(topic, callback, subscriber_id)
Subscription(topic, callback, subscriber_id, handle) ==
    [topic |-> topic, callback |-> callback, subscriber_id |-> subscriber_id,
     handle |-> handle]

\* Message(id, topic, payload, sender_id)
Message(id, topic, payload, sender_id) ==
    [id |-> id, topic |-> topic, payload |-> payload, sender_id |-> sender_id]

\* MessageBus.start
start ==
    /\ _running' = TRUE
    /\ UNCHANGED <<_subscriptions, _message_queue, _message_history, created, deliveries>>
    /\ UNCHANGED <<recovery_vars, workflow_vars, basic_vars, guard_vars, detector_vars, caller_vars>>

\* MessageBus.stop
stop ==
    /\ _running' = FALSE
    /\ UNCHANGED <<_subscriptions, _message_queue, _message_history, created, deliveries>>
    /\ UNCHANGED <<recovery_vars, workflow_vars, basic_vars, guard_vars, detector_vars, caller_vars>>

\* MessageBus.subscribe
subscribe(topic, callback, subscriber_id) ==
    /\ created < MaxCreated
    /\ created' = created + 1
    /\ _subscriptions' =
           Put(_subscriptions, topic,
               Append(Get(_subscriptions, topic, <<>>),
                      Subscription(topic, callback, subscriber_id, created + 1)))
    /\ UNCHANGED <<_message_queue, _running, _message_history, deliveries>>
    /\ UNCHANGED <<recovery_vars, workflow_vars, basic_vars, guard_vars, detector_vars, caller_vars>>

\* MessageBus.unsubscribe
unsubscribe(subscription) ==
    /\ _subscriptions' =
           IF subscription.topic \in DOMAIN _subscriptions
           THEN Put(_subscriptions, subscription.topic,
                    RemoveFirst(_subscriptions[subscription.topic], subscription))
           ELSE _subscriptions
    /\ UNCHANGED <<_message_queue, _running, _message_history, created, deliveries>>
    /\ UNCHANGED <<recovery_vars, workflow_vars, basic_vars, guard_vars, detector_vars, caller_vars>>

\* MessageBus.publish
publish(topic, payload, sender_id) ==
    /\ created < MaxCreated
    /\ created' = created + 1
    /\ _message_queue' = Append(_message_queue, Message(created + 1, topic, payload, sender_id))
    /\ UNCHANGED <<_subscriptions, _running, _message_history, deliveries>>
    /\ UNCHANGED <<recovery_vars, workflow_vars, basic_vars, guard_vars, detector_vars, caller_vars>>

\* MessageBus._safe_deliver: the callback invocations it makes
_safe_deliver(subscription, message) ==
    IF subscription.subscriber_id = message.sender_id THEN <<>>
    ELSE << [message |-> message.id, subscription |-> subscription.handle,
             raised |-> subscription.callback = "raise"] >>

\* the delivery tasks of _deliver_message, in the order they are created
RECURSIVE DeliveryTasks(_, _)
DeliveryTasks(all_subscriptions, message) ==
    IF all_subscriptions = <<>> THEN <<>>
    ELSE _safe_deliver(Head(all_subscriptions), message)
         \o DeliveryTasks(Tail(all_subscriptions), message)

\* the subscriptions _deliver_message delivers a message to
all_subscriptions(message) ==
    Get(_subscriptions, message.topic, <<>>) \o Get(_subscriptions, "*", <<>>)

\* one pass of the while loop of _process_messages with a message in the
\* queue: _deliver_message(message)
_process_messages ==
    /\ _running
    /\ _message_queue # <<>>
    /\ LET message == Head(_message_queue)
           history == Append(_message_history, message)
       IN  /\ _message_queue' = Tail(_message_queue)
           /\ _message_history' =
                  IF Len(history) > _max_history_size THEN Tail(history) ELSE history
           /\ deliveries' = deliveries \o DeliveryTasks(all_subscriptions(message), message)
    /\ UNCHANGED <<_subscriptions, _running, created>>
    /\ UNCHANGED <<recovery_vars, workflow_vars, basic_vars, guard_vars, detector_vars, caller_vars>>

\* MessageBus()
BusIdle ==
    /\ _subscriptions = <<>>
    /\ _message_queue = <<>>
    /\ _running = FALSE
    /\ _message_history = <<>>
    /\ created = 0
    /\ deliveries = <<>>

\* the client has kept no result of run_workflow
NoKeptResult == [kept |-> FALSE]

\* no result kept, no scan of the monitoring thread under way, no notification sent
CallersIdle ==
    /\ kept_result = NoKeptResult
    /\ monitor_pending = <<>>
    /\ notifications = <<>>

BusTopics == {"test-topic", "*"}

BusAgents == {"agent-1", "agent-2"}

\* the Subscription objects the bus holds
Subscribed ==
    UNION { Range(_subscriptions[topic]) : topic \in DOMAIN _subscriptions }

BusNext ==
    \/ start
    \/ stop
    \/ \E topic \in BusTopics, callback \in {"ok", "raise"}, subscriber_id \in BusAgents :
          subscribe(topic, callback, subscriber_id)
    \/ \E subscription \in Subscribed : unsubscribe(subscription)
    \/ \E topic \in BusTopics, sender_id \in BusAgents :
          publish(topic, [data |-> "test"], sender_id)
    \/ _process_messages

\* RecoveryLoop() with its default arguments, no call running
RecoveryIdle ==
    /\ now = 0
    /\ max_retries = 3
    /\ base_delay_ms = 1000
    /\ max_delay_ms = 30000
    /\ circuit_breaker_threshold = 3
    /\ circuit_breakers = <<>>
    /\ recovery_history = <<>>
    /\ pc = "idle"
    /\ frame = NoFrame
    /\ outcome = NoOutcome
    /\ checks = <<>>
    /\ invoked = <<>>
    /\ sleeps = <<>>
    /\ hist_at_call = 0
    /\ call_args = NoFrame
    /\ recorded = <<>>

\* the workflow supervisor
InitWorkflow ==
    WorkflowInit /\ RecoveryIdle /\ SupervisorAgentInit /\ GuardIdle /\ DetectorIdle /\ BusIdle /\ CallersIdle

\* a pass of the for loop of run_workflow
Dispatch ==
    \E node_name \in NodeNames :
        SkipCompleted(node_name) \/ ExecuteNode(node_name) \/ DispatchUnknown(node_name)

TerminationNext ==
    \/ \E initial_input \in TerminationInputs, max_it \in MaxIterationsArgs :
          run_workflow(initial_input, max_it)
    \/ \E node_name \in NodeNames : SkipCompleted(node_name)
    \/ \E node_name \in NodeNames : ExecuteNode(node_name)
    \/ \E node_name \in NodeNames : DispatchUnknown(node_name)

\* run_workflow is straight-line code around callables that return or raise:
\* a run that has started goes on
InitTermination ==
    TerminationInit /\ RecoveryIdle /\ SupervisorAgentInit /\ GuardIdle /\ DetectorIdle /\ BusIdle /\ CallersIdle

SpecWorkflowFair == InitTermination /\ [][TerminationNext]_vars /\ WF_vars(Dispatch)

InitBreakers ==
    BreakersInit /\ SupervisorInit /\ SupervisorAgentInit /\ GuardIdle /\ DetectorIdle /\ BusIdle /\ CallersIdle

\* the recovery loop with two step names
SpecBreakers == InitBreakers /\ [][BreakersNext]_vars

SpecWorkflow == InitWorkflow /\ [][WorkflowNext]_vars

InitSupervisor ==
    SupervisorAgentConstructed /\ SupervisorInit /\ RecoveryIdle /\ GuardIdle /\ DetectorIdle
    /\ BusIdle /\ CallersIdle

\* SupervisorAgent.run_workflow and its escalation
SpecSupervisor == InitSupervisor /\ [][SupervisorAgentNext]_vars

\* one or two callables that may return or raise whenever they are invoked
SupAnyBehaviour ==
    { s \in SupervisorAgents :
         /\ Len(s.agents) \in {1, 2}
         /\ \A n \in Range(s.agents) : s.behaviour[n] = "flaky" }

\* no LangGraphSupervisorAgent has been constructed
NoLangGraphSupervisor ==
    /\ agents = <<>>
    /\ behaviour = <<>>
    /\ graph = WorkflowGraph
    /\ workflow_state = <<>>
    /\ blocked_tasks = <<>>
    /\ wpc = "absent"
    /\ max_iterations = 0
    /\ run_input = <<>>
    /\ iteration = 0
    /\ current_nodes = {}
    /\ next_nodes = <<>>
    /\ completed_nodes = {}
    /\ execution_log = <<>>
    /\ agent_calls = <<>>
    /\ escalation_levels = <<>>

\* no SupervisorAgent has been constructed
NoSupervisorAgent ==
    /\ sup_agents = <<>>
    /\ sup_behaviour = <<>>
    /\ sup_blocked_tasks = <<>>
    /\ sup_pc = "absent"
    /\ sup_max_steps = 0
    /\ sup_step = 0
    /\ sup_context = <<>>
    /\ sup_results = <<>>
    /\ sup_calls = <<>>

\* the supervisor under test, as each test of test_escalation_handling.py
\* builds one: a SupervisorAgent, or a LangGraphSupervisorAgent with a chain of
\* three nodes; its callables may fail whenever they are invoked
InitEscalation ==
    /\ \/ Constructed({ChainGraph}, AnyBehaviour) /\ NoSupervisorAgent
       \/ NoLangGraphSupervisor /\ SupConstructed(SupAnyBehaviour)
    /\ RecoveryIdle /\ GuardIdle /\ DetectorIdle /\ BusIdle /\ CallersIdle

EscalationNext ==
    \/ \E max_it \in MaxIterationsArgs : run_workflow(<<>>, max_it)
    \/ \E node_name \in NodeNames : ExecuteNode(node_name)
    \/ \E max_steps \in MaxStepsArgs \ {0} : SupervisorAgent_run_workflow(<<>>, max_steps)
    \/ SupervisorAgent_step
    \/ SupervisorAgent_level1
    \/ SupervisorAgent_level2
    \/ SupervisorAgent_level3

\* the escalation of both supervisors
SpecEscalation == InitEscalation /\ [][EscalationNext]_vars

\* a supervisor with the example workflow or a graph with a guard outside the
\* built-in list, its workflow state filled by the client, no run going on
GuardsInit ==
    /\ agents = <<>>
    /\ behaviour = <<>>
    /\ graph \in {create_workflow(WorkflowGraph), CycleGraph}
    /\ workflow_state \in GuardStates
    /\ blocked_tasks = <<>>
    /\ wpc = "idle"
    /\ max_iterations = 0
    /\ run_input = <<>>
    /\ iteration = 0
    /\ current_nodes = {}
    /\ next_nodes = <<>>
    /\ completed_nodes = {}
    /\ execution_log = <<>>
    /\ agent_calls = <<>>
    /\ escalation_levels = <<>>

(***************************************************************************)
(* Two runs of one supervisor on the same input.  run_workflow walks the   *)
(* ready set in the order of list(set(next_nodes)), which the hash seed of *)
(* the process decides: ExecuteNode, SkipCompleted and DispatchUnknown     *)
(* take the nodes of the ready set in any order.  The client keeps what a  *)
(* run returned and runs the workflow again.                               *)
(***************************************************************************)
\* the client keeps the dict run_workflow returned
KeepResult ==
    /\ wpc = "returned"
    /\ ~kept_result.kept
    /\ kept_result' = [kept |-> TRUE, initial_input |-> run_input,
                       max_iterations |-> max_iterations,
                       workflow_state |-> workflow_state,
                       completed_nodes |-> completed_nodes,
                       total_iterations |-> iteration]
    /\ UNCHANGED <<monitor_pending, notifications>>
    /\ UNCHANGED <<recovery_vars, workflow_vars, basic_vars, guard_vars, detector_vars, bus_vars>>

\* graphs in which a ready set holds two nodes
OrderGraphs == {DiamondGraph, DanglingGraph}

\* callables that do the same whenever they are invoked
DeterministicSupervisors ==
    { s \in Supervisors : \A n \in Range(s.agents) : s.behaviour[n] # "flaky" }

OrderInit == Constructed(OrderGraphs, DeterministicSupervisors)

InitOrder ==
    OrderInit /\ RecoveryIdle /\ SupervisorAgentInit /\ GuardIdle /\ DetectorIdle /\ BusIdle
    /\ CallersIdle

OrderNext ==
    \/ \E initial_input \in InitialInputs, max_it \in MaxIterationsArgs :
          run_workflow(initial_input, max_it)
    \/ \E node_name \in NodeNames : SkipCompleted(node_name)
    \/ \E node_name \in NodeNames : ExecuteNode(node_name)
    \/ \E node_name \in NodeNames : DispatchUnknown(node_name)
    \/ KeepResult

\* runs of one supervisor, compared
SpecWorkflowOrder == InitOrder /\ [][OrderNext]_vars

InitGuards ==
    GuardsInit /\ GuardIdle /\ RecoveryIdle /\ SupervisorAgentInit /\ DetectorIdle /\ BusIdle /\ CallersIdle

\* guard evaluation on a supervisor at rest
SpecGuards == InitGuards /\ [][GuardNext]_vars

(***************************************************************************)
(* The monitoring thread next to the threads of the clients.  The detector *)
(* takes no lock: between the moment a check of the monitoring thread has  *)
(* read an item and built its StuckIssue and the moment _report_issue      *)
(* records it, the clients may call agent_started, agent_progress and      *)
(* agent_completed.  A check is two steps here: the read that builds the   *)
(* issue, and the report.                                                  *)
(***************************************************************************)
\* _check_for_timeout_issues at the item of agent_name: the issue is built
ScanTimeout(agent_name) ==
    /\ monitor_pending = <<>>
    /\ agent_name \in ItemKeys(agent_start_times)
    /\ wall_clock - ItemValue(agent_start_times, agent_name) > timeout_threshold
    /\ monitor_pending' = << StuckIssue("timeout", ISSUE_TIMEOUT, HIGH, agent_name,
                                        "unknown", wall_clock) >>
    /\ UNCHANGED <<kept_result, notifications>>
    /\ UNCHANGED <<recovery_vars, workflow_vars, basic_vars, guard_vars, detector_vars, bus_vars>>

\* _check_for_no_progress_issues at the item of agent_name: the issue is built
ScanNoProgress(agent_name) ==
    /\ monitor_pending = <<>>
    /\ agent_name \in ItemKeys(agent_last_progress)
    /\ agent_name \in ItemKeys(agent_iteration_counts)
    /\ wall_clock - ItemValue(agent_last_progress, agent_name) > timeout_threshold
    /\ agent_name \in ItemKeys(agent_start_times)
    /\ monitor_pending' = << StuckIssue("no_progress", ISSUE_NO_PROGRESS, MEDIUM, agent_name,
                                        "unknown", wall_clock) >>
    /\ UNCHANGED <<kept_result, notifications>>
    /\ UNCHANGED <<recovery_vars, workflow_vars, basic_vars, guard_vars, detector_vars, bus_vars>>

\* self._report_issue(issue) with the issue the check has built
ReportPending ==
    /\ monitor_pending # <<>>
    /\ LET reported == _report_issue(Pass(detected_issues, callback_calls, None),
                                     Head(monitor_pending), wall_clock)
       IN  /\ detected_issues' = reported.issues
           /\ callback_calls' = reported.calls
           /\ monitor_errors' = (reported.raised # None)
    /\ monitor_pending' = <<>>
    /\ UNCHANGED <<wall_clock, timeout_threshold, max_iterations_without_progress,
                   agent_start_times, agent_last_progress, agent_iteration_counts,
                   workflow_tracking, issue_callbacks, passes>>
    /\ UNCHANGED <<kept_result, notifications>>
    /\ UNCHANGED <<recovery_vars, workflow_vars, basic_vars, guard_vars, bus_vars>>

DetectorThreadsNext ==
    \/ \E agent_name \in DetectorAgents : agent_started(agent_name)
    \/ \E agent_name \in DetectorAgents : agent_progress(agent_name)
    \/ \E agent_name \in DetectorAgents : agent_completed(agent_name)
    \/ \E agent_name \in DetectorAgents : ScanTimeout(agent_name)
    \/ \E agent_name \in DetectorAgents : ScanNoProgress(agent_name)
    \/ ReportPending
    \/ \E seconds \in Pauses : Elapse(seconds)

InitDetectorThreads ==
    DetectorConstructed /\ RecoveryIdle /\ SupervisorInit /\ SupervisorAgentInit /\ GuardIdle
    /\ BusIdle /\ CallersIdle

\* the monitoring thread interleaved with the clients of the detector
SpecDetectorThreads == InitDetectorThreads /\ [][DetectorThreadsNext]_vars

(***************************************************************************)
(* LangGraphSupervisorWithStuckDetection: the supervisor that tells a      *)
(* StuckIssueDetector of its own what it does.  execute_node and           *)
(* run_workflow wrap the methods of LangGraphSupervisorAgent; the for loop *)
(* of the parent's run_workflow calls the execute_node of the subclass.    *)
(***************************************************************************)
\* one call of the detector, as the supervisor makes it
Notification(op, name) == [op |-> op, name |-> name]

\* the dicts of the detector that the calls of a supervisor write
Tracking ==
    [agent_start_times |-> agent_start_times, agent_last_progress |-> agent_last_progress,
     agent_iteration_counts |-> agent_iteration_counts,
     workflow_tracking |-> workflow_tracking]

\* the dicts after one call: agent_started, agent_progress, agent_completed,
\* workflow_started and workflow_completed of StuckIssueDetector
Notified(tr, call, state) ==
    CASE call.op = "agent_started" ->
           [tr EXCEPT !.agent_start_times = SetItem(@, call.name, wall_clock),
                      !.agent_last_progress = SetItem(@, call.name, wall_clock),
                      !.agent_iteration_counts = SetItem(@, call.name, 0)]
      [] call.op = "agent_progress" ->
           [tr EXCEPT !.agent_last_progress = SetItem(@, call.name, wall_clock),
                      !.agent_iteration_counts =
                          IF call.name \in ItemKeys(@)
                          THEN SetItem(@, call.name, ItemValue(@, call.name) + 1)
                          ELSE SetItem(@, call.name, 1)]
      [] call.op = "agent_completed" ->
           [tr EXCEPT !.agent_start_times = PopItem(@, call.name),
                      !.agent_last_progress = PopItem(@, call.name),
                      !.agent_iteration_counts = PopItem(@, call.name)]
      [] call.op = "workflow_started" ->
           [tr EXCEPT !.workflow_tracking =
                          SetItem(@, call.name,
                                  [last_progress |-> wall_clock, completed_nodes |-> <<>>,
                                   total_iterations |-> 0, state |-> state])]
      [] call.op = "workflow_completed" ->
           [tr EXCEPT !.workflow_tracking = PopItem(@, call.name)]

RECURSIVE NotifiedAll(_, _, _)
NotifiedAll(tr, calls, state) ==
    IF calls = <<>> THEN tr
    ELSE NotifiedAll(Notified(tr, Head(calls), state), Tail(calls), state)

\* the supervisor makes the calls, in order
Notify(calls, state) ==
    /\ LET tr == NotifiedAll(Tracking, calls, state)
       IN  /\ agent_start_times' = tr.agent_start_times
           /\ agent_last_progress' = tr.agent_last_progress
           /\ agent_iteration_counts' = tr.agent_iteration_counts
           /\ workflow_tracking' = tr.workflow_tracking
    /\ UNCHANGED <<wall_clock, timeout_threshold, max_iterations_without_progress,
                   detected_issues, issue_callbacks, callback_calls, monitor_errors, passes>>

\* an execute_node that notifies the completion on the exception path only
execute_node_notifications_without_finally(node_name, raised) ==
    << Notification("agent_started", node_name) >>
    \o (IF raised THEN << Notification("agent_completed", node_name) >>
                  ELSE << Notification("agent_progress", node_name) >>)

\* the calls execute_node of the subclass makes around super().execute_node:
\* agent_started; agent_progress when the parent returned, agent_completed in
\* the except branch when it raised; agent_completed in the finally branch
execute_node_notifications(node_name, raised) ==
    << Notification("agent_started", node_name) >>
    \o (IF raised THEN << Notification("agent_completed", node_name) >>
                  ELSE << Notification("agent_progress", node_name) >>)
    \o << Notification("agent_completed", node_name) >>

\* initial_input.get("workflow_id", f"workflow_{self.graph.start_node}")
WorkflowId(initial_input) ==
    Get(initial_input, "workflow_id", "workflow_" \o graph.start_node)

\* the finally branch of run_workflow, reached when the parent's run_workflow
\* has returned or raised
workflow_completed_in_finally(ended, workflow_id) ==
    IF ended THEN << Notification("workflow_completed", workflow_id) >> ELSE <<>>

\* LangGraphSupervisorWithStuckDetection.run_workflow up to the first pass of
\* the for loop of the parent
StuckDetection_run_workflow(initial_input, max_it) ==
    LET workflow_id == WorkflowId(initial_input)
        workflow_input == Put(initial_input, "workflow_id", workflow_id)
        calls == << Notification("workflow_started", workflow_id) >>
                 \o workflow_completed_in_finally(wpc' \in {"returned", "raised"}, workflow_id)
    IN  /\ super_run_workflow(workflow_input, max_it)
        /\ Notify(calls, workflow_input)
        /\ notifications' = calls
        /\ UNCHANGED <<kept_result, monitor_pending>>
        /\ UNCHANGED <<recovery_vars, basic_vars, guard_vars, bus_vars>>

\* the pass over a completed node; the run may end with it
StuckDetection_SkipCompleted(node_name) ==
    LET calls == workflow_completed_in_finally(wpc' \in {"returned", "raised"},
                                              workflow_state["workflow_id"])
    IN  /\ super_SkipCompleted(node_name)
        /\ Notify(calls, <<>>)
        /\ notifications' = notifications \o calls
        /\ UNCHANGED <<kept_result, monitor_pending>>
        /\ UNCHANGED <<recovery_vars, basic_vars, guard_vars, bus_vars>>

\* the pass over a node of the graph: execute_node of the subclass
StuckDetection_ExecuteNode(node_name) ==
    LET calls == execute_node_notifications(node_name, FALSE)
                 \o workflow_completed_in_finally(wpc' \in {"returned", "raised"},
                                                  workflow_state["workflow_id"])
    IN  /\ super_ExecuteNode(node_name)
        /\ Notify(calls, <<>>)
        /\ notifications' = notifications \o calls
        /\ UNCHANGED <<kept_result, monitor_pending>>
        /\ UNCHANGED <<recovery_vars, basic_vars, guard_vars, bus_vars>>

\* the pass over a name the graph does not hold: the KeyError of
\* super().execute_node goes through execute_node of the subclass
StuckDetection_DispatchUnknown(node_name) ==
    LET calls == execute_node_notifications(node_name, TRUE)
                 \o workflow_completed_in_finally(wpc' \in {"returned", "raised"},
                                                  workflow_state["workflow_id"])
    IN  /\ super_DispatchUnknown(node_name)
        /\ Notify(calls, <<>>)
        /\ notifications' = notifications \o calls
        /\ UNCHANGED <<kept_result, monitor_pending>>
        /\ UNCHANGED <<recovery_vars, basic_vars, guard_vars, bus_vars>>

\* graphs without a start node, with a dangling edge, with an edge between
\* two nodes of one ready set
StuckDetectionGraphs == {NoStartGraph, DanglingGraph, TriangleGraph}

\* a workflow_id given by the client, or none
StuckDetectionInputs == { <<>>, [workflow_id |-> "workflow1"] }

\* LangGraphSupervisorWithStuckDetection(timeout_threshold=3) as the
\* demonstration builds it, with handle_issue of its StuckIssueRecovery
\* registered, and callables registered for its nodes
StuckDetectionInit ==
    /\ Constructed(StuckDetectionGraphs, OneFlaky)
    /\ StuckIssueDetector(3, 10, << "handle_issue" >>)

InitStuckDetection ==
    StuckDetectionInit /\ RecoveryIdle /\ SupervisorAgentInit /\ GuardIdle /\ BusIdle
    /\ CallersIdle

StuckDetectionNext ==
    \/ \E initial_input \in StuckDetectionInputs, max_it \in MaxIterationsArgs :
          StuckDetection_run_workflow(initial_input, max_it)
    \/ \E node_name \in NodeNames : StuckDetection_SkipCompleted(node_name)
    \/ \E node_name \in NodeNames : StuckDetection_ExecuteNode(node_name)
    \/ \E node_name \in NodeNames : StuckDetection_DispatchUnknown(node_name)
    \/ _monitoring_loop
    \/ \E seconds \in Pauses : Elapse(seconds)

\* the supervisor with stuck detection and the monitoring thread of its detector
SpecStuckDetection == InitStuckDetection /\ [][StuckDetectionNext]_vars

InitDetector ==
    DetectorConstructed /\ RecoveryIdle /\ SupervisorInit /\ SupervisorAgentInit /\ GuardIdle
    /\ BusIdle /\ CallersIdle

\* the stuck issue detector, its clients and its monitoring thread
SpecDetector == InitDetector /\ [][DetectorNext]_vars

InitBus ==
    BusIdle /\ CallersIdle /\ RecoveryIdle /\ SupervisorInit /\ SupervisorAgentInit /\ GuardIdle
    /\ DetectorIdle

\* the message bus, the agents that use it and its worker
SpecBus == InitBus /\ [][BusNext]_vars

Init ==
    RecoveryInit /\ SupervisorInit /\ SupervisorAgentInit /\ GuardIdle /\ DetectorIdle /\ BusIdle /\ CallersIdle

Next == RecoveryNext

\* the recovery loop and its circuit breakers
Spec == Init /\ [][Next]_vars

(***************************************************************************)
(* The retry schedule: the for loop of execute_with_recovery for a step    *)
(* that raises on every try, reduced to the strategy chosen and the delay  *)
(* slept before each try, with enough retries for the delays to reach      *)
(* max_delay_ms.                                                           *)
(***************************************************************************)
BackoffConfigs ==
    { [max_retries |-> 7, base_delay_ms |-> 1000, max_delay_ms |-> 30000],
      [max_retries |-> 7, base_delay_ms |-> 500, max_delay_ms |-> 2000],
      [max_retries |-> 7, base_delay_ms |-> 2000, max_delay_ms |-> 1000] }

BackoffLists ==
    StrategyLists \cup
    { <<IMMEDIATE_RETRY>>,
      <<CIRCUIT_BREAKER, EXPONENTIAL_BACKOFF>>,
      <<EXPONENTIAL_BACKOFF, IMMEDIATE_RETRY, FALLBACK_DEFAULT>> }

BackoffInit ==
    /\ now = 0
    /\ \E c \in BackoffConfigs :
          /\ max_retries = c.max_retries
          /\ base_delay_ms = c.base_delay_ms
          /\ max_delay_ms = c.max_delay_ms
    /\ circuit_breaker_threshold = 3
    /\ circuit_breakers = <<>>
    /\ recovery_history = <<>>
    /\ pc = "backoff"
    /\ \E strategies \in BackoffLists :
          frame = [agent_name |-> "X", strategies |-> strategies,
                   alternative_agents |-> {}, fallback_result |-> None, attempt |-> 0]
    /\ outcome = NoOutcome
    /\ checks = <<>>
    /\ invoked = <<>>
    /\ sleeps = <<>>
    /\ hist_at_call = 0
    /\ call_args = NoFrame
    /\ recorded = <<>>

\* one pass of the loop whose try raises: lines 178-185, then `continue`
FailingTry ==
    /\ pc = "backoff"
    /\ frame.attempt < Tries
    /\ LET strategy == StrategyFor(frame.strategies, frame.attempt)
       IN  sleeps' = Append(sleeps,
                            [agent |-> frame.agent_name, attempt |-> frame.attempt,
                             strategy |-> strategy,
                             delay_ms |-> SleepBefore(frame.attempt, strategy)])
    /\ frame' = [frame EXCEPT !.attempt = @ + 1]
    /\ UNCHANGED <<now, config_vars, circuit_breakers, recovery_history, pc, outcome,
                   checks, invoked, hist_at_call, call_args, recorded>>
    /\ UNCHANGED <<workflow_vars, basic_vars, guard_vars, detector_vars, bus_vars, caller_vars>>

BackoffNext == FailingTry

InitBackoff ==
    BackoffInit /\ SupervisorInit /\ SupervisorAgentInit /\ GuardIdle /\ DetectorIdle /\ BusIdle /\ CallersIdle

SpecBackoff == InitBackoff /\ [][BackoffNext]_vars

(***************************************************************************)
(* Properties of the recovery loop                                         *)
(***************************************************************************)
\* the RecoveryAttempts of step a appended since the running call started
AttemptsOf(a) ==
    SelectSeq(SubSeq(recovery_history, hist_at_call + 1, Len(recovery_history)),
              LAMBDA r : r.agent = a)

AllFailed(rs) == \A i \in 1..Len(rs) : ~rs[i].success

\* the breaker was open, and its reset timeout had not elapsed, at check c
OpenAndNotElapsed(c) ==
    /\ c.registered
    /\ c.before.circuit_open
    /\ c.t - c.before.last_failure_time <= c.before.reset_timeout_seconds

\* C2: once 3 failures have been recorded for a registered step with no reset
\* or auto-close in between, its breaker is open, and every allow check made
\* while no more than reset_timeout_seconds have elapsed since the last
\* recorded failure answers false.
C2_OpenAfterThreeFailures ==
    /\ \A n \in DOMAIN circuit_breakers :
          recorded[n] >= 3 => circuit_breakers[n].circuit_open
    /\ \A i \in 1..Len(checks) :
          LET c == checks[i]
          IN  (/\ c.registered
               /\ c.recorded >= 3
               /\ c.t - c.before.last_failure_time <= c.before.reset_timeout_seconds)
              => ~c.allow

\* three failures were recorded, and a check made within the timeout refused
C2_Witness ==
    \E i \in 1..Len(checks) :
        /\ checks[i].registered
        /\ checks[i].recorded = 3
        /\ checks[i].t - checks[i].before.last_failure_time = checks[i].before.reset_timeout_seconds
        /\ ~checks[i].allow

\* C3: if the breaker of X is open and its reset timeout has not elapsed when
\* execute_with_recovery(X, ...) is called, the step function of X is not
\* invoked during that call and no RecoveryAttempt of X is appended.
C3_RejectedStepNotInvoked ==
    \A i \in 1..Len(checks) :
        OpenAndNotElapsed(checks[i])
        => /\ invoked[checks[i].agent] = 0
           /\ Len(AttemptsOf(checks[i].agent)) = 0

\* a rejected call of X has returned what its alternative agent produced
C3_Witness ==
    /\ pc = "returned"
    /\ Len(checks) = 2
    /\ OpenAndNotElapsed(checks[1])
    /\ checks[1].agent = "X"
    /\ invoked["X_fallback"] > 0
    /\ outcome.status = "success"

\* C4: an allow check of an open breaker made strictly more than
\* reset_timeout_seconds after last_failure_time answers true and leaves
\* circuit_open false and failure_count 0; made at most reset_timeout_seconds
\* after it, the check answers false and changes nothing.
C4_AllowCheckAutoClose ==
    \A i \in 1..Len(checks) :
        LET c == checks[i]
        IN  (c.registered /\ c.before.circuit_open)
            => IF c.t - c.before.last_failure_time > c.before.reset_timeout_seconds
               THEN /\ c.allow
                    /\ ~c.after.circuit_open
                    /\ c.after.failure_count = 0
               ELSE /\ ~c.allow
                    /\ c.after = c.before

\* an open breaker was closed by the check of a call
C4_Witness ==
    \E i \in 1..Len(checks) :
        /\ checks[i].registered
        /\ checks[i].before.circuit_open
        /\ checks[i].before.failure_count >= 3
        /\ checks[i].allow
        /\ checks[i].after.failure_count = 0

\* C5: the breaker opens at the configured circuit_breaker_threshold: it is
\* closed after fewer recorded failures and open after that many.
C5_OpensAtConfiguredThreshold ==
    \A n \in DOMAIN circuit_breakers :
        /\ recorded[n] >= circuit_breaker_threshold => circuit_breakers[n].circuit_open
        /\ recorded[n] < circuit_breaker_threshold => ~circuit_breakers[n].circuit_open

\* C6: a call that the breaker allowed and whose step fails on every try
\* invokes the step exactly max_retries + 1 times, also when the breaker opens
\* part-way; a try that succeeds is the last one.
C6_ExactlyMaxRetriesPlusOneTries ==
    \A a \in DOMAIN invoked :
        LET rs == AttemptsOf(a)
        IN  /\ invoked[a] = Len(rs)
            /\ invoked[a] <= max_retries + 1
            /\ (pc = "returned" /\ Len(rs) >= 1 /\ AllFailed(rs))
               => invoked[a] = max_retries + 1
            /\ \A i \in 1..Len(rs) :
                  rs[i].success
                  => /\ i = Len(rs)
                     /\ pc = "returned"
                     /\ outcome.status = "success"
                     /\ outcome.agent = a

\* every try of X failed, and the breaker of X opened before the last one
C6_Witness ==
    /\ pc = "returned"
    /\ Len(checks) >= 1
    /\ checks[1].agent = "X"
    /\ checks[1].registered
    /\ checks[1].allow
    /\ checks[1].after.failure_count = 2
    /\ max_retries >= 1
    /\ invoked["X"] = max_retries + 1
    /\ AllFailed(AttemptsOf("X"))
    /\ circuit_breakers["X"].circuit_open

\* C7: a step that fails on its first k tries and succeeds on try k+1 yields
\* status success with recovery_attempts = k and recovery_applied = (k > 0),
\* and the history gains k failed records followed by one successful record.
C7_SuccessAfterKFailures ==
    (pc = "returned" /\ outcome.status = "success")
    => LET rs == AttemptsOf(outcome.agent)
           k == Len(rs) - 1
       IN  /\ k >= 0
           /\ k <= max_retries
           /\ {"recovery_attempts", "recovery_applied"} \subseteq outcome.keys
           /\ outcome.recovery_attempts = k
           /\ outcome.recovery_applied = (k > 0)
           /\ \A i \in 1..k : ~rs[i].success /\ rs[i].attempt_number = i
           /\ rs[k + 1].success
           /\ \A i \in 0..k :
                 recovery_history[Len(recovery_history) - i].agent = outcome.agent

\* the step failed twice and succeeded on the third try
C7_Witness ==
    /\ pc = "returned"
    /\ outcome.status = "success"
    /\ outcome.recovery_attempts = 2
    /\ Len(AttemptsOf(outcome.agent)) = 3

\* C8: without ALTERNATIVE_AGENT, with FALLBACK_DEFAULT among the strategies
\* and a fallback_result given, a call whose step fails on every try returns
\* status fallback with exactly that fallback_result, never status failed.
C8_FallbackOverFailure ==
    (/\ pc = "returned"
     /\ ALTERNATIVE_AGENT \notin Range(call_args.strategies)
     /\ FALLBACK_DEFAULT \in Range(call_args.strategies)
     /\ call_args.fallback_result # None
     /\ AllFailed(AttemptsOf(call_args.agent_name)))
    => /\ outcome.kind = "returned"
       /\ outcome.status = "fallback"
       /\ outcome.result = call_args.fallback_result

\* every one of the max_retries + 1 tries failed and the fallback_result came back
C8_Witness ==
    /\ pc = "returned"
    /\ call_args.strategies = <<EXPONENTIAL_BACKOFF, FALLBACK_DEFAULT>>
    /\ invoked[call_args.agent_name] = max_retries + 1
    /\ max_retries = 2
    /\ outcome.status = "fallback"
    /\ outcome.result = "fallback_value"

\* the waits of the successive tries with base_delay_ms = 1000 and max_delay_ms = 30000
DefaultSchedule == <<0, 1000, 2000, 4000, 8000, 16000, 30000, 30000>>

\* C9: the delay before retry k >= 1 under EXPONENTIAL_BACKOFF is
\* min(max_delay_ms, base_delay_ms * 2^(k-1)), that is 0, 1000, 2000, 4000,
\* 8000, 16000 and then 30000 for the successive tries with base 1000 and cap
\* 30000; these delays never decrease with k and never exceed max_delay_ms;
\* the first try and every try under another strategy wait 0.
C9_BackoffSchedule ==
    \A i \in 1..Len(sleeps) :
        LET e == sleeps[i]
            k == e.attempt
        IN  /\ k = i - 1
            /\ k = 0 => e.delay_ms = 0
            /\ e.strategy # EXPONENTIAL_BACKOFF => e.delay_ms = 0
            /\ (k >= 1 /\ e.strategy = EXPONENTIAL_BACKOFF)
               => /\ base_delay_ms * 2^(k - 1) <= max_delay_ms
                     => e.delay_ms = base_delay_ms * 2^(k - 1)
                  /\ base_delay_ms * 2^(k - 1) > max_delay_ms
                     => e.delay_ms = max_delay_ms
            /\ e.delay_ms <= max_delay_ms
            /\ (base_delay_ms = 1000 /\ max_delay_ms = 30000
                /\ frame.strategies = <<EXPONENTIAL_BACKOFF>>)
               => e.delay_ms = DefaultSchedule[i]
            /\ \A j \in 1..(i - 1) :
                  (e.strategy = EXPONENTIAL_BACKOFF
                   /\ sleeps[j].strategy = EXPONENTIAL_BACKOFF)
                  => sleeps[j].delay_ms <= e.delay_ms

\* with base 1000 and cap 30000 the eighth try has waited the capped 30000 ms
C9_Witness ==
    /\ base_delay_ms = 1000
    /\ max_delay_ms = 30000
    /\ frame.strategies = <<EXPONENTIAL_BACKOFF>>
    /\ Len(sleeps) = 8
    /\ sleeps[6].delay_ms = 16000
    /\ sleeps[7].delay_ms = 30000
    /\ sleeps[8].delay_ms = 30000

\* C10: the fallback_result is returned (status fallback) only by a call whose
\* strategies hold FALLBACK_DEFAULT.
C10_FallbackOnlyWithStrategy ==
    (pc = "returned" /\ outcome.status = "fallback")
    => FALLBACK_DEFAULT \in Range(call_args.strategies)

\* C11: every outcome returned for a call that was rejected because the circuit
\* was open carries circuit_breaker_triggered = true, whether the rejection is
\* resolved by the alternative step, by the fallback_result or by a failure.
C11_RejectedCarriesTriggered ==
    (/\ pc = "returned"
     /\ outcome.kind = "returned"
     /\ Len(checks) >= 1
     /\ ~checks[1].allow)
    => /\ "circuit_breaker_triggered" \in outcome.keys
       /\ outcome.circuit_breaker_triggered

\* C12: a step name with no registered breaker is always allowed: each circuit
\* check of it answers yes however often it has failed, a call of it that
\* returns has tried its step, and no outcome for it carries
\* circuit_breaker_triggered = true (a call whose list of strategies is empty
\* raises before its first try and returns no outcome); and a breaker counts,
\* and is opened by, the failures of its own step name only.
C12_UnregisteredAllowedBreakersIndependent ==
    /\ \A i \in 1..Len(checks) :
          ~checks[i].registered
          => /\ checks[i].allow
             /\ (pc = "returned" /\ outcome.kind = "returned")
                => invoked[checks[i].agent] >= 1
    /\ (/\ pc = "returned"
        /\ outcome.kind = "returned"
        /\ outcome.agent \notin DOMAIN circuit_breakers)
       => ~outcome.circuit_breaker_triggered
    /\ \A n \in DOMAIN circuit_breakers :
          /\ circuit_breakers[n].failure_count = recorded[n]
          /\ circuit_breakers[n].circuit_open => recorded[n] >= OpenAfterFailures

\* X, which has no breaker, was tried again and failed on every try while the
\* breaker of X_fallback, open by its own failures, stayed as it was
C12_Witness ==
    /\ pc = "returned"
    /\ call_args.agent_name = "X"
    /\ DOMAIN circuit_breakers = {"X_fallback"}
    /\ circuit_breakers["X_fallback"].circuit_open
    /\ recorded["X_fallback"] = 3
    /\ Len(checks) = 1
    /\ invoked["X"] = 2
    /\ AllFailed(AttemptsOf("X"))
    /\ outcome.status = "failed"
    /\ ~outcome.circuit_breaker_triggered

(***************************************************************************)
(* Properties of the workflow supervisor                                   *)
(***************************************************************************)
\* the entries of the execution log for node n with status completed
CompletedEntries(n) ==
    SelectSeq(execution_log, LAMBDA e : e.node = n /\ e.status = "completed")

\* C1: in any run of run_workflow every node name is logged with status
\* completed at most once, also when several satisfied edges lead to the node
\* in one iteration and when the node lies on a cycle of the graph.
C1_CompletedAtMostOnce ==
    \A n \in NodeNames : Len(CompletedEntries(n)) <= 1

\* analysis and decision completed in the same iteration, both with a satisfied
\* edge to output, and output was run once; analysis -> decision was skipped
C1_Witness ==
    /\ wpc = "returned"
    /\ graph.edges = DiamondGraph.edges
    /\ \E i, j \in 1..Len(execution_log) :
          /\ execution_log[i].node = "analysis"
          /\ execution_log[j].node = "decision"
          /\ execution_log[i].iteration = execution_log[j].iteration
          /\ i < j
    /\ Len(CompletedEntries("output")) = 1
    /\ completed_nodes = {"input_processing", "analysis", "decision", "output"}

\* the chain the satisfied edges of the graph make for the running call, if any:
\* the three-node chain, or the sample workflow when ready_for_output is not
\* given as true (decision -> output is then not taken)
ChainOf ==
    IF graph.edges = ChainGraph.edges THEN ChainNodes
    ELSE IF /\ graph.edges = create_workflow(WorkflowGraph).edges
            /\ ~Get(run_input, "ready_for_output", FALSE)
         THEN WorkflowNodes
         ELSE <<>>

\* every callable invoked in the run was invoked for its own node and returned
\* a non-empty dict
AllFirstTrySuccess ==
    \A i \in 1..Len(agent_calls) :
        agent_calls[i].via = "direct" /\ agent_calls[i].outcome = "ok"

\* C13: on a linear chain of n distinct nodes whose guards are all true and whose
\* steps all succeed on the first try, run_workflow with max_iterations >= n
\* returns all n nodes as completed, total_iterations = n, and a log of exactly
\* n entries, one per node in chain order (n = 6 for the sample workflow).
C13_LinearChainCompletes ==
    (/\ wpc = "returned"
     /\ ChainOf # <<>>
     /\ Range(ChainOf) \subseteq Range(agents)
     /\ AllFirstTrySuccess
     /\ max_iterations >= Len(ChainOf))
    => /\ completed_nodes = Range(ChainOf)
       /\ iteration = Len(ChainOf)
       /\ Len(execution_log) = Len(ChainOf)
       /\ \A i \in 1..Len(ChainOf) :
             /\ execution_log[i].node = ChainOf[i]
             /\ execution_log[i].status = "completed"
             /\ execution_log[i].iteration = i

\* the sample workflow has returned after its six nodes ran in six iterations
C13_Witness ==
    /\ wpc = "returned"
    /\ ChainOf = WorkflowNodes
    /\ AllFirstTrySuccess
    /\ Len(agent_calls) = 6
    /\ iteration = 6
    /\ Len(execution_log) = 6
    /\ execution_log[6].node = "output"

\* the entries of the execution log for node n
EntriesOf(n) == SelectSeq(execution_log, LAMBDA e : e.node = n)

\* the sample workflow with the six example agents, the one of `failing`
\* replaced by a callable that always raises
SampleWorkflowWithFailing(failing) ==
    /\ graph.edges = create_workflow(WorkflowGraph).edges
    /\ agents = WorkflowNodes
    /\ behaviour = [n \in Range(WorkflowNodes) |-> IF n = failing THEN "raise" ELSE "ok"]

\* C14: on the sample workflow with an analysis step that always raises,
\* run_workflow logs analysis with status failed, returns completed_nodes
\* holding input_processing only, and dispatches no node after the iteration
\* in which analysis ran.
C14_FailingAnalysisStopsRun ==
    (/\ wpc = "returned"
     /\ SampleWorkflowWithFailing("analysis")
     /\ max_iterations >= 2)
    => /\ Len(EntriesOf("analysis")) = 1
       /\ EntriesOf("analysis")[1].status = "failed"
       /\ completed_nodes = {"input_processing"}
       /\ \A i \in 1..Len(execution_log) :
             execution_log[i].iteration <= EntriesOf("analysis")[1].iteration

C16_TerminatesWithinMaxIterations ==
    /\ [](wpc # "idle" => iteration <= max_iterations)
    /\ (wpc = "for") ~> (wpc = "returned")

\* the run on the cyclic graph was cut by the cap of two iterations while the
\* edge analysis -> decision was satisfied
C16_Witness ==
    /\ wpc = "returned"
    /\ graph.edges = CycleGraph.edges
    /\ max_iterations = 2
    /\ iteration = 2
    /\ completed_nodes = {"input_processing", "analysis"}
    /\ evaluate_condition("validation_failed", workflow_state)

\* the result of an escalation, as opposed to a callable's own dict
FromEscalation(result) ==
    result.via \in {"retry_success", "alternative_used", "escalation_record"}

\* C17: run_workflow raises only when the start node is missing; an exception
\* raised by a step, the dispatch of a name that was never added to the graph
\* and a node with no registered step do not reach the caller: each is reported
\* in the execution log of the returned result.
C17_OnlyStartNodeErrorRaises ==
    /\ wpc = "raised" => graph.start_node = None
    /\ \A i \in 1..Len(agent_calls) :
          (agent_calls[i].via = "direct" /\ agent_calls[i].outcome = "raise")
          => /\ Len(EntriesOf(agent_calls[i].for_node)) = 1
             /\ FromEscalation(EntriesOf(agent_calls[i].for_node)[1].result)
    /\ \A i \in 1..Len(execution_log) :
          LET e == execution_log[i]
          IN  /\ e.node \notin DOMAIN graph.nodes
                 => e.status = "failed" /\ e.result.via = "KeyError"
              /\ (e.node \in DOMAIN graph.nodes /\ ~Registered(e.node))
                 => FromEscalation(e.result)

\* the run has returned a log that reports a step that raised, a node with no
\* registered step and a name that was never added
C17_Witness ==
    /\ wpc = "returned"
    /\ graph.edges = DanglingGraph.edges
    /\ \E i \in 1..Len(agent_calls) :
          agent_calls[i].via = "direct" /\ agent_calls[i].outcome = "raise"
    /\ Len(EntriesOf("missing")) = 1
    /\ Len(EntriesOf("output")) = 1
    /\ ~Registered("output")

\* C18: once the failure of a node has been escalated to Level 3 (its result
\* has status escalated), run_workflow dispatches no further node in that run:
\* the successors of the escalated node are never executed.
C18_EscalatedStopsDispatch ==
    \A i \in 1..Len(execution_log) :
        execution_log[i].result.status = "escalated" => i = Len(execution_log)

\* the agent the round robin of decide_next_agent picks after `agent_name`
NextInRoundRobin(agent_name) ==
    LET k == CHOOSE i \in 1..Len(sup_agents) : sup_agents[i] = agent_name
    IN  sup_agents[IF k = Len(sup_agents) THEN 1 ELSE k + 1]

\* C19: in SupervisorAgent.run_workflow an escalation result with status
\* "escalated" is the last element of `results`, the run has returned and no
\* callable was invoked after it was appended; an escalation result with status
\* "success" does not stop the run: the next element of `results` is the step
\* of the agent that follows the failed one in the round robin, and when there
\* is none the loop is still running or its max_steps steps are done
C19_EscalatedStopsResolvedContinues ==
    \A i \in 1..Len(sup_results) :
        LET r == sup_results[i]
        IN  /\ (r.line = 97 /\ r.status = "escalated") =>
                  /\ i = Len(sup_results)
                  /\ sup_pc = "returned"
                  /\ \A c \in 1..Len(sup_calls) : sup_calls[c].at < i
            /\ (r.line = 97 /\ r.status = "success") =>
                  IF i < Len(sup_results)
                  THEN /\ sup_results[i + 1].line = 85
                       /\ sup_results[i + 1].agent = NextInRoundRobin(sup_results[i - 1].agent)
                  ELSE \/ sup_pc = "loop"
                       \/ sup_pc = "returned" /\ sup_step + 1 >= sup_max_steps

\* a run in which a resolved escalation was followed by the next agent's step
\* and a later escalation reached level 3
C19_Witness ==
    /\ sup_pc = "returned"
    /\ Len(sup_results) = 4
    /\ sup_results[2].line = 97 /\ sup_results[2].status = "success"
    /\ sup_results[3].line = 85 /\ sup_results[3].agent = "processor"
    /\ sup_results[4].line = 97 /\ sup_results[4].status = "escalated"
    /\ sup_step + 1 < sup_max_steps
    /\ Len(sup_calls) = 5

\* EscalationLevel, in the order of its members
LevelRank(level) ==
    CASE level = LEVEL_1 -> 1
      [] level = LEVEL_2 -> 2
      [] level = LEVEL_3 -> 3

\* a task that stays in the list keeps its level or moves one level up, and a
\* task that enters the list of a SupervisorAgent enters it at LEVEL_1
SupLevelsClimb ==
    \A i \in 1..Len(sup_blocked_tasks') :
        IF i <= Len(sup_blocked_tasks)
           /\ sup_blocked_tasks[i].task_id = sup_blocked_tasks'[i].task_id
        THEN LevelRank(sup_blocked_tasks'[i].escalation_level)
                - LevelRank(sup_blocked_tasks[i].escalation_level) \in {0, 1}
        ELSE sup_blocked_tasks'[i].escalation_level = LEVEL_1

\* a task that stays in the list of a LangGraphSupervisorAgent does not move down
LevelsDoNotDescend ==
    \A i \in 1..Len(blocked_tasks') :
        (i <= Len(blocked_tasks) /\ blocked_tasks[i].task_id = blocked_tasks'[i].task_id)
        => LevelRank(blocked_tasks'[i].escalation_level)
              >= LevelRank(blocked_tasks[i].escalation_level)

\* C20: the escalation level of a blocked task only climbs.  In a
\* SupervisorAgent every step leaves each blocked task at its level or one
\* level higher, and a new task starts at LEVEL_1; in a
\* LangGraphSupervisorAgent the levels _escalate_task sees during one
\* handle_blocked_task are LEVEL_1, then LEVEL_2, then LEVEL_3, in that order
\* (a beginning of that sequence), and a task left in blocked_tasks never moves
\* to a lower level
C20_LevelOnlyClimbs ==
    /\ [][SupLevelsClimb /\ LevelsDoNotDescend]_vars
    /\ [](\A k \in 1..Len(escalation_levels) :
             \E n \in 1..3 :
                escalation_levels[k] = SubSeq(<<LEVEL_1, LEVEL_2, LEVEL_3>>, 1, n))

\* a LangGraphSupervisorAgent has resolved a task at LEVEL_1 and one at LEVEL_2
\* and has taken a third through the three levels
C20_Witness ==
    /\ Len(escalation_levels) = 3
    /\ escalation_levels[1] = <<LEVEL_1>>
    /\ escalation_levels[2] = <<LEVEL_1, LEVEL_2>>
    /\ escalation_levels[3] = <<LEVEL_1, LEVEL_2, LEVEL_3>>
    /\ blocked_tasks # <<>>
    /\ blocked_tasks[Len(blocked_tasks)].escalation_level = LEVEL_3

\* C30: a call rejected because the circuit is open is not counted as a
\* failure of the step: the step of execute_with_recovery that makes the
\* rejected check leaves failure_count and last_failure_time of the step's
\* breaker as they were.
C30_RejectionNotCounted ==
    [][(/\ pc = "idle"
        /\ checks' # <<>>
        /\ checks'[1].registered
        /\ ~checks'[1].allow)
       => LET a == checks'[1].agent
          IN  /\ circuit_breakers'[a].failure_count = circuit_breakers[a].failure_count
              /\ circuit_breakers'[a].last_failure_time
                    = circuit_breakers[a].last_failure_time]_vars

\* C21: a blocked task is retried at Level 1 max_retries times before it moves
\* to Level 2: every task of either supervisor that is at LEVEL_2 or LEVEL_3
\* has counted max_retries retries.
C21_RetriedMaxRetriesTimes ==
    /\ \A i \in 1..Len(sup_blocked_tasks) :
          sup_blocked_tasks[i].escalation_level # LEVEL_1
          => sup_blocked_tasks[i].retry_count = sup_blocked_tasks[i].max_retries
    /\ \A i \in 1..Len(blocked_tasks) :
          blocked_tasks[i].escalation_level # LEVEL_1
          => blocked_tasks[i].retry_count = blocked_tasks[i].max_retries

\* C27: an edge to a node name that was never added, or a dispatched node with
\* no registered step, is a configuration error on which run_workflow fails
\* fast: a run that has dispatched such a node has raised, and no callable is
\* invoked as a retry of, or in the place of, a node with no registered step.
C27_ConfigurationErrorFailsFast ==
    /\ \A i \in 1..Len(execution_log) :
          (\/ execution_log[i].node \notin DOMAIN graph.nodes
           \/ ~Registered(execution_log[i].node))
          => wpc = "raised"
    /\ \A c \in 1..Len(agent_calls) :
          agent_calls[c].via \in {"retry", "alternative"}
          => Registered(agent_calls[c].for_node)

\* every task of the list is at LEVEL_3
AllAtLevel3(bts) == \A i \in 1..Len(bts) : bts[i].escalation_level = LEVEL_3

\* run_workflow of the LangGraphSupervisorAgent has logged a node: when the
\* node's result is an escalation to level 3 the node's task has joined
\* blocked_tasks, and otherwise the list is as it was
LoggedNodeBlockedIffEscalated ==
    (Len(execution_log') = Len(execution_log) + 1)
    => LET e == execution_log'[Len(execution_log')]
       IN  IF e.result.status = "escalated"
           THEN /\ Len(blocked_tasks') = Len(blocked_tasks) + 1
                /\ SubSeq(blocked_tasks', 1, Len(blocked_tasks)) = blocked_tasks
                /\ blocked_tasks'[Len(blocked_tasks')].agent_name = e.node
                /\ blocked_tasks'[Len(blocked_tasks')].escalation_level = LEVEL_3
           ELSE blocked_tasks' = blocked_tasks

\* handle_blocked_task of the SupervisorAgent has returned: when the status is
\* escalated the task it appended is still the last of blocked_tasks, and
\* otherwise it is gone
ReturnedBlockedIffEscalated ==
    (sup_pc = "escalate" /\ sup_pc' # "escalate")
    => LET e == sup_results'[Len(sup_results')]
           task == sup_blocked_tasks[Len(sup_blocked_tasks)]
       IN  IF e.status = "escalated"
           THEN /\ Len(sup_blocked_tasks') = Len(sup_blocked_tasks)
                /\ sup_blocked_tasks'[Len(sup_blocked_tasks')].task_id = task.task_id
                /\ sup_blocked_tasks'[Len(sup_blocked_tasks')].escalation_level = LEVEL_3
           ELSE /\ e.status = "success"
                /\ sup_blocked_tasks'
                      = SubSeq(sup_blocked_tasks, 1, Len(sup_blocked_tasks) - 1)

\* C23: after handle_blocked_task returns the task is in the blocked set if
\* and only if the returned status is escalated (a task resolved at Level 1 or
\* Level 2 has been removed, one that reached Level 3 is kept), in both
\* supervisors; and whenever no handle_blocked_task is running every task of
\* the blocked set is at LEVEL_3
C23_BlockedIffEscalated ==
    /\ [][LoggedNodeBlockedIffEscalated /\ ReturnedBlockedIffEscalated]_vars
    /\ [](AllAtLevel3(blocked_tasks)
           /\ (sup_pc # "escalate" => AllAtLevel3(sup_blocked_tasks)))

\* a run of the LangGraphSupervisorAgent in which one task was resolved at
\* Level 2 and removed, and a later one reached Level 3 and was kept
C23_Witness ==
    /\ wpc = "returned"
    /\ Len(escalation_levels) = 2
    /\ escalation_levels[1] = <<LEVEL_1, LEVEL_2>>
    /\ escalation_levels[2] = <<LEVEL_1, LEVEL_2, LEVEL_3>>
    /\ Len(blocked_tasks) = 1
    /\ execution_log[Len(execution_log)].result.status = "escalated"

\* `other` is the first name in registration order that differs from `name`
FirstOther(registered, name, other) ==
    LET others == SelectSeq(registered, LAMBDA n : n # name)
    IN  others # <<>> /\ other = Head(others)

\* the index of the call of the step that failed, for the escalation call k of
\* a SupervisorAgent: the last call made by the loop of run_workflow before k
FailedStepCall(k) ==
    CHOOSE j \in 1..(k - 1) :
        /\ sup_calls[j].via = "step"
        /\ \A i \in (j + 1)..(k - 1) : sup_calls[i].via # "step"

\* Level 2 of a SupervisorAgent invokes a callable only if another name is
\* registered: the first one, once, and nothing after it for the same task
SupOneAlternative ==
    \A k \in 1..Len(sup_calls) :
        sup_calls[k].via = "alternative"
        => /\ FirstOther(sup_agents, sup_calls[FailedStepCall(k)].agent,
                         sup_calls[k].agent)
           /\ k < Len(sup_calls) => sup_calls[k + 1].via = "step"

\* Level 2 of a LangGraphSupervisorAgent invokes a callable only if another
\* name is registered: the first one, once, and nothing after it for the same
\* task
OneAlternative ==
    \A k \in 1..Len(agent_calls) :
        agent_calls[k].via = "alternative"
        => /\ FirstOther(agents, agent_calls[k].for_node, agent_calls[k].agent)
           /\ k < Len(agent_calls)
              => agent_calls[k + 1].for_node # agent_calls[k].for_node

\* the alternative is called with the dict the failing step was called with
SupAlternativeGetsSameContext ==
    \A k \in 1..Len(sup_calls) :
        sup_calls[k].via = "alternative"
        => sup_calls[k].input_data = sup_calls[FailedStepCall(k)].input_data

AlternativeGetsSameContext ==
    \A k \in 1..Len(agent_calls) :
        agent_calls[k].via = "alternative"
        => \A j \in 1..(k - 1) :
              (agent_calls[j].via = "direct"
               /\ agent_calls[j].for_node = agent_calls[k].for_node)
              => agent_calls[k].input_data = agent_calls[j].input_data

\* C22: Level 2 invokes exactly one alternative, the first step in
\* registration order whose name differs from the failing step's, with the
\* same context the failing step received; with no other step registered, or
\* when that alternative fails, the task moves to Level 3 and no further step
\* is tried for it (in both supervisors).
C22_OneAlternativeSameContext ==
    /\ SupOneAlternative
    /\ OneAlternative
    /\ SupAlternativeGetsSameContext
    /\ AlternativeGetsSameContext

(***************************************************************************)
(* Properties of guard evaluation                                          *)
(***************************************************************************)
\* C28: guard evaluation is pure.  Whenever a client has evaluated a guard
\* twice in a row, the second answer is the first and both are booleans,
\* "always" was answered true and a key outside the built-in list false,
\* whatever the workflow state; and after evaluate_condition or
\* get_next_nodes the workflow state is the one the client started from.
C28_GuardEvaluationIsPure ==
    guard_obs.op # None =>
        /\ guard_obs.again = guard_obs.value
        /\ guard_obs.after = guard_obs.context
        /\ workflow_state = guard_obs.context
        /\ guard_obs.op = "evaluate_condition" =>
               /\ guard_obs.value \in BOOLEAN
               /\ guard_obs.arg = "always" => guard_obs.value = TRUE
               /\ guard_obs.arg \notin BuiltinConditions => guard_obs.value = FALSE

\* a built-in guard has been evaluated twice on a state that holds other keys
\* and lacks the key of the guard
C28_Witness ==
    /\ guard_obs.op = "evaluate_condition"
    /\ guard_obs.arg = "ready_for_output"
    /\ "ready_for_output" \notin DOMAIN guard_obs.context
    /\ guard_obs.context # <<>>
    /\ guard_obs.value = FALSE

(***************************************************************************)
(* Properties of the stuck issue detector                                  *)
(***************************************************************************)
\* the step is a pass of the monitoring loop
IsPass == passes' # passes

\* the issues and the callback invocations the step adds
NewIssues == SubSeq(detected_issues', Len(detected_issues) + 1, Len(detected_issues'))

NewCalls == SubSeq(callback_calls', Len(callback_calls) + 1, Len(callback_calls'))

OnlyAppends ==
    /\ Len(detected_issues') >= Len(detected_issues)
    /\ SubSeq(detected_issues', 1, Len(detected_issues)) = detected_issues
    /\ Len(callback_calls') >= Len(callback_calls)
    /\ SubSeq(callback_calls', 1, Len(callback_calls)) = callback_calls

\* the agents running for longer than the threshold
TimedOut ==
    { a \in ItemKeys(agent_start_times) :
        wall_clock - ItemValue(agent_start_times, a) > timeout_threshold }

\* the running agents without progress for longer than the threshold
WithoutProgress ==
    { a \in ItemKeys(agent_last_progress) \cap ItemKeys(agent_iteration_counts)
             \cap ItemKeys(agent_start_times) :
        wall_clock - ItemValue(agent_last_progress, a) > timeout_threshold }

\* the tracked workflows without progress for longer than the threshold and
\* with more iterations than max_iterations_without_progress
BlockedWorkflows ==
    { w \in ItemKeys(workflow_tracking) :
        /\ wall_clock - ItemValue(workflow_tracking, w).last_progress > timeout_threshold
        /\ ItemValue(workflow_tracking, w).total_iterations > max_iterations_without_progress }

\* what a pass detects now, as (step name, issue type)
Detections ==
    { <<a, ISSUE_TIMEOUT>> : a \in TimedOut }
    \cup { <<a, ISSUE_NO_PROGRESS>> : a \in WithoutProgress }
    \cup { <<"workflow_supervisor", ISSUE_BLOCKED>> : w \in BlockedWorkflows }

StepAndType(issue) == <<issue.agent_name, issue.issue_type>>

\* an issue of that step and type was recorded less than `seconds` ago
RecordedWithin(key, seconds) ==
    \E i \in 1..Len(detected_issues) :
        /\ StepAndType(detected_issues[i]) = key
        /\ wall_clock - detected_issues[i].detected_at < seconds

NewWith(key) == { i \in 1..Len(NewIssues) : StepAndType(NewIssues[i]) = key }

\* C24: the detector does not record the same (step name, issue type) twice
\* within 60 seconds.  In a pass of the monitoring loop a detection whose
\* step and type were recorded less than 60 seconds earlier adds no issue
\* and invokes no callback (when every detection of the pass is one,
\* detected_issues, get_active_issues() and the callback invocations are
\* what they were), while a detection of a step and type not recorded in
\* that time adds exactly one issue, whatever was recorded for the same step
\* under another type; and no two recorded (or active) issues of one step
\* and type are less than 60 seconds apart.
C24_NoDuplicateWithinWindow ==
    /\ [][/\ OnlyAppends
           /\ IsPass =>
                 /\ \A key \in Detections :
                        IF RecordedWithin(key, 60)
                        THEN NewWith(key) = {}
                        ELSE Cardinality(NewWith(key)) = 1
                 /\ \A i \in 1..Len(NewIssues) : StepAndType(NewIssues[i]) \in Detections
                 /\ \A c \in Range(NewCalls) :
                        \E n \in Range(NewIssues) : c.issue_id = n.issue_id
                 /\ (\A key \in Detections : RecordedWithin(key, 60)) =>
                        /\ detected_issues' = detected_issues
                        /\ get_active_issues(detected_issues', wall_clock')
                             = get_active_issues(detected_issues, wall_clock)
                        /\ callback_calls' = callback_calls]_vars
    /\ [](\A i, j \in 1..Len(detected_issues) :
             (i < j /\ StepAndType(detected_issues[i]) = StepAndType(detected_issues[j])) =>
                 detected_issues[j].detected_at - detected_issues[i].detected_at >= 60)
    /\ [](\A key \in {StepAndType(issue) : issue \in Range(detected_issues)} :
             Cardinality({ i \in 1..Len(get_active_issues(detected_issues, wall_clock)) :
                 /\ StepAndType(get_active_issues(detected_issues, wall_clock)[i]) = key
                 /\ wall_clock - get_active_issues(detected_issues, wall_clock)[i].detected_at
                        < 60 }) <= 1)

\* a pass has just recorded a blocked workflow while the timeout of an agent
\* that is still running, recorded less than 60 seconds before, was detected
\* again and not recorded again; the agent has an issue of another type too
C24_Witness ==
    \E i, j, k \in 1..Len(detected_issues) :
        /\ detected_issues[i].issue_type = ISSUE_TIMEOUT
        /\ detected_issues[j].issue_type = ISSUE_BLOCKED
        /\ detected_issues[k].issue_type = ISSUE_NO_PROGRESS
        /\ detected_issues[k].agent_name = detected_issues[i].agent_name
        /\ detected_issues[j].detected_at = wall_clock
        /\ detected_issues[i].detected_at < wall_clock
        /\ wall_clock - detected_issues[i].detected_at < 60
        /\ detected_issues[i].agent_name \in TimedOut
        /\ Cardinality({ n \in 1..Len(detected_issues) :
               StepAndType(detected_issues[n]) = StepAndType(detected_issues[i]) }) = 1

\* C25: in a pass of the monitoring loop, every tracked workflow whose last
\* progress is older than timeout_threshold and whose total_iterations is
\* greater than max_iterations_without_progress gets a blocked issue with
\* its workflow id recorded, unless one for that same workflow was recorded
\* in the previous 60 seconds; also when several workflows are blocked in
\* the same pass.
C25_EveryBlockedWorkflowRecorded ==
    [][IsPass =>
          \A w \in BlockedWorkflows :
              \/ \E i \in 1..Len(detected_issues) :
                     /\ detected_issues[i].issue_type = ISSUE_BLOCKED
                     /\ detected_issues[i].workflow_id = w
                     /\ wall_clock - detected_issues[i].detected_at < 60
              \/ \E i \in 1..Len(NewIssues) :
                     /\ NewIssues[i].issue_type = ISSUE_BLOCKED
                     /\ NewIssues[i].workflow_id = w
                     /\ NewIssues[i].detected_at = wall_clock]_vars

\* the invocations _report_issue makes for the issues: every registered
\* callback once per issue, in registration order
RECURSIVE CallsFor(_)
CallsFor(issues) ==
    IF issues = <<>> THEN <<>>
    ELSE [k \in 1..Len(issue_callbacks) |->
             [callback |-> k, issue_id |-> Head(issues).issue_id]]
         \o CallsFor(Tail(issues))

\* C26: when a pass of the monitoring loop records new issues, every
\* registered callback is invoked exactly once with each of them, in
\* registration order, also after a callback has raised; the issue stays in
\* detected_issues; handle_issue of a StuckIssueRecovery raises nothing; and
\* no exception reaches the except clause of the monitoring loop.
C26_CallbacksOnceInOrder ==
    /\ [][IsPass =>
              /\ [i \in 1..Len(NewCalls) |->
                     [callback |-> NewCalls[i].callback, issue_id |-> NewCalls[i].issue_id]]
                   = CallsFor(NewIssues)
              /\ SubSeq(detected_issues', 1, Len(detected_issues)) = detected_issues
              /\ monitor_errors' = FALSE]_vars
    /\ [](~monitor_errors)
    /\ [](\A c \in Range(callback_calls) :
             /\ c.raised <=> issue_callbacks[c.callback] = "raise"
             /\ \E issue \in Range(detected_issues) : issue.issue_id = c.issue_id)

\* a callback has raised for an issue, the callbacks after it have been
\* invoked with that issue, and the issue is recorded
C26_Witness ==
    \E i \in 1..Len(callback_calls) :
        /\ callback_calls[i].raised
        /\ callback_calls[i].callback < Len(issue_callbacks)
        /\ i + Len(issue_callbacks) - callback_calls[i].callback <= Len(callback_calls)
        /\ \A d \in 1..(Len(issue_callbacks) - callback_calls[i].callback) :
               /\ callback_calls[i + d].issue_id = callback_calls[i].issue_id
               /\ callback_calls[i + d].callback = callback_calls[i].callback + d
        /\ \E issue \in Range(detected_issues) : issue.issue_id = callback_calls[i].issue_id

(***************************************************************************)
(* Properties of the message bus                                           *)
(***************************************************************************)
\* the callback invocations the step adds
NewDeliveries == SubSeq(deliveries', Len(deliveries) + 1, Len(deliveries'))

\* the subscriptions on the topic of the message or on the wildcard
OnTopicOrWildcard(message) ==
    Range(Get(_subscriptions, message.topic, <<>>)) \cup Range(Get(_subscriptions, "*", <<>>))

\* C29: when the bus delivers a message, no subscription whose subscriber_id
\* is the sender_id of the message receives it, on the topic or on the
\* wildcard "*", and every other subscription on the topic or on "*"
\* receives it exactly once; nothing else is delivered.
C29_NoSelfDeliveryOthersOnce ==
    [][_message_history' # _message_history =>
          LET message == Head(_message_queue)
          IN  /\ \A subscription \in OnTopicOrWildcard(message) :
                     Cardinality({ i \in 1..Len(NewDeliveries) :
                                     /\ NewDeliveries[i].subscription = subscription.handle
                                     /\ NewDeliveries[i].message = message.id })
                       = IF subscription.subscriber_id = message.sender_id THEN 0 ELSE 1
              /\ \A d \in Range(NewDeliveries) :
                     /\ d.message = message.id
                     /\ \E subscription \in OnTopicOrWildcard(message) :
                            d.subscription = subscription.handle]_vars

(***************************************************************************)
(* Further properties of execute_with_recovery                             *)
(***************************************************************************)
\* C31: for every non-empty strategy list, a list holding only
\* ALTERNATIVE_AGENT included, every alternatives map and every behaviour of
\* the step function, execute_with_recovery returns an outcome whose status
\* is success, fallback or failed: no exception leaves the call.
C31_AlwaysReturnsOutcome ==
    (pc = "returned" /\ Len(call_args.strategies) >= 1)
    => /\ outcome.kind = "returned"
       /\ outcome.status \in {"success", "fallback", "failed"}

\* every strategy of the alternative's call: the caller's without ALTERNATIVE_AGENT
AlternativeStrategies == Without(call_args.strategies, ALTERNATIVE_AGENT)

TryMade == Len(recovery_history') = Len(recovery_history) + 1

LastTry == recovery_history'[Len(recovery_history')]

\* a circuit check of this step found the breaker of n open and closed it
AutoClosed(n) ==
    \E i \in 1..Len(checks') :
        /\ i > Len(checks) \/ pc = "idle"
        /\ checks'[i].agent = n
        /\ checks'[i].before.circuit_open
        /\ checks'[i].allow

\* a failure of n was recorded in this step: a try that raised, or a call
\* that the breaker rejected
FailureRecorded(n) ==
    \/ TryMade /\ LastTry.agent = n /\ ~LastTry.success
    \/ \E i \in 1..Len(checks') :
          /\ i > Len(checks) \/ pc = "idle"
          /\ checks'[i].agent = n
          /\ ~checks'[i].allow

\* C33: a successful execution of X leaves the breaker of X as it was:
\* failure_count changes only by +1 when a failure is recorded and to 0 on an
\* auto-close or an explicit reset (or for a newly registered breaker), so
\* three failures, separated by successes or by any time spent closed, open
\* the circuit.
C33_SuccessKeepsFailureCount ==
    /\ [][/\ (TryMade /\ LastTry.success) => circuit_breakers' = circuit_breakers
          /\ (now' # now) => circuit_breakers' = circuit_breakers
          /\ \A n \in DOMAIN circuit_breakers :
                LET before == circuit_breakers[n].failure_count
                    after == circuit_breakers'[n].failure_count
                IN  \/ after = before
                    \/ after = before + 1 /\ FailureRecorded(n)
                    \/ after = 0 /\ AutoClosed(n)
                    \/ after = 0 /\ pc = "idle" /\ pc' = "idle"]_vars
    /\ [](\A n \in DOMAIN circuit_breakers :
             /\ circuit_breakers[n].failure_count = recorded[n]
             /\ circuit_breakers[n].failure_count >= 3 => circuit_breakers[n].circuit_open)

\* the breaker of X holds 3 failures and is open, and the last two tries in
\* the history are a success of X and then the failure that opened it
C33_Witness ==
    /\ "X" \in DOMAIN circuit_breakers
    /\ circuit_breakers["X"].failure_count = 3
    /\ circuit_breakers["X"].circuit_open
    /\ Len(recovery_history) = 2
    /\ recovery_history[1].agent = "X" /\ recovery_history[1].success
    /\ recovery_history[2].agent = "X" /\ ~recovery_history[2].success

\* get_recovery_stats(): the keys of the returned dict that count attempts
\* (the rates, durations and per-strategy counts are not modelled); an empty
\* history yields {"total_attempts": 0} and nothing else
get_recovery_stats(history) ==
    IF Len(history) = 0
    THEN [k \in {"total_attempts"} |-> 0]
    ELSE LET total_attempts == Len(history)
             successful_attempts == Len(SelectSeq(history, LAMBDA a : a.success))
             failed_attempts == total_attempts - successful_attempts
         IN  [k \in {"total_attempts", "successful_attempts", "failed_attempts"} |->
                 CASE k = "total_attempts" -> total_attempts
                   [] k = "successful_attempts" -> successful_attempts
                   [] OTHER -> failed_attempts]

\* the step function was invoked in this step
StepInvoked ==
    pc = "try" /\ \E a \in DOMAIN invoked : invoked'[a] = invoked[a] + 1

\* each invocation of a step function appends exactly one RecoveryAttempt,
\* numbered by the try within its call and flagged with the outcome of the
\* try; the records before it stay as they are until the history is cleared
HistoryAppendOnly ==
    /\ StepInvoked <=> TryMade
    /\ TryMade => /\ recovery_history' = Append(recovery_history, LastTry)
                  /\ LastTry.agent = frame.agent_name
                  /\ LastTry.attempt_number = frame.attempt + 1
                  /\ LastTry.attempt_number = invoked'[LastTry.agent]
                  /\ LastTry.success <=> /\ pc' = "returned"
                                         /\ outcome'.status = "success"
                                         /\ outcome'.agent = LastTry.agent
    /\ (recovery_history' # recovery_history /\ ~TryMade)
       => recovery_history' = <<>> /\ pc = "idle" /\ pc' = "idle"

\* get_recovery_stats reports the three counts, and they add up to the length
\* of the history
StatsAddUp ==
    LET stats == get_recovery_stats(recovery_history)
    IN  /\ {"total_attempts", "successful_attempts", "failed_attempts"} \subseteq DOMAIN stats
        /\ stats["total_attempts"] = stats["successful_attempts"] + stats["failed_attempts"]
        /\ stats["total_attempts"] = Len(recovery_history)

\* as StatsAddUp, for a history that holds at least one attempt
StatsAddUpWhenNonEmpty == Len(recovery_history) >= 1 => StatsAddUp

\* C34: the recovery history is append-only between clear_recovery_history
\* calls: every invocation of a step function appends exactly one
\* RecoveryAttempt whose attempt_number is the 1-based index of the try within
\* its call and whose success flag is the outcome of the try, no record is
\* changed or removed, and get_recovery_stats always reports total_attempts =
\* successful_attempts + failed_attempts = the length of the history.
C34_HistoryAppendOnlyStatsAddUp ==
    /\ [][HistoryAppendOnly]_vars
    /\ []StatsAddUp

\* the part of C34 that the code keeps: the history is append-only, and the
\* counts add up whenever the history is not empty
C34_AppendOnlyAndNonEmptyStats ==
    /\ [][HistoryAppendOnly]_vars
    /\ []StatsAddUpWhenNonEmpty

(***************************************************************************)
(* The guards of the validation node                                       *)
(***************************************************************************)
\* C36: on every workflow state the guard validation_failed is the negation
\* of the guard validation_passed; the two are never both true, so the
\* validation node never routes to both output and analysis.
C36_ValidationGuardsExclusive ==
    /\ (guard_obs.op = "evaluate_condition" /\ guard_obs.arg = "validation_failed")
       => guard_obs.value = ~evaluate_condition("validation_passed", guard_obs.context)
    /\ (guard_obs.op = "evaluate_condition" /\ guard_obs.arg = "validation_passed")
       => guard_obs.value = ~evaluate_condition("validation_failed", guard_obs.context)
    /\ (guard_obs.op = "get_next_nodes" /\ guard_obs.arg = "validation")
       => ~({"output", "analysis"} \subseteq Range(guard_obs.value))

\* the part of C36 that the code keeps: with the key validation_passed in the
\* workflow state, validation_failed is the negation of validation_passed
C36_ExclusiveWhenKeyPresent ==
    (/\ guard_obs.op = "evaluate_condition"
     /\ guard_obs.arg = "validation_failed"
     /\ "validation_passed" \in DOMAIN guard_obs.context)
    => guard_obs.value = ~evaluate_condition("validation_passed", guard_obs.context)

(***************************************************************************)
(* Further properties of LangGraphSupervisorAgent.run_workflow             *)
(***************************************************************************)
\* the callable registered for node n was invoked for n itself and returned
StepReturned(n) ==
    \E i \in 1..Len(agent_calls) :
        /\ agent_calls[i].agent = n
        /\ agent_calls[i].via = "direct"
        /\ agent_calls[i].for_node = n
        /\ agent_calls[i].outcome # "raise"

\* C35: a node is listed in completed_nodes, and logged with status
\* completed, only if its own step returned and its node status is COMPLETED;
\* a node whose step raised, whose status is BLOCKED, is never listed as
\* completed.
C35_CompletedOnlyIfStepSucceeded ==
    /\ \A n \in completed_nodes :
          /\ graph.nodes[n] = COMPLETED
          /\ StepReturned(n)
    /\ \A i \in 1..Len(execution_log) :
          execution_log[i].status = "completed"
          => /\ execution_log[i].result.via = "direct"
             /\ StepReturned(execution_log[i].node)

\* the log entry appended in this step, if one was
Logged == Len(execution_log') = Len(execution_log) + 1

LastLogged == execution_log'[Len(execution_log')]

C37_OrderOfReadySetIrrelevant ==
    (/\ wpc = "returned"
     /\ kept_result.kept
     /\ kept_result.initial_input = run_input
     /\ kept_result.max_iterations = max_iterations)
    => /\ completed_nodes = kept_result.completed_nodes
       /\ workflow_state = kept_result.workflow_state

\* the part of C37 that the code keeps: while no node of a ready set fails,
\* two runs on the same input return the same completed nodes and state
C37_OrderIrrelevantWithoutFailure ==
    (/\ wpc = "returned"
     /\ kept_result.kept
     /\ kept_result.initial_input = run_input
     /\ kept_result.max_iterations = max_iterations
     /\ graph.edges # DanglingGraph.edges)
    => /\ completed_nodes = kept_result.completed_nodes
       /\ workflow_state = kept_result.workflow_state

(***************************************************************************)
(* The monitoring thread and the clients of the detector                   *)
(***************************************************************************)
\* C39: under every interleaving of the monitoring thread with
\* agent_started, agent_progress and agent_completed, a timeout or
\* no_progress issue is recorded for a step only while the step is registered
\* as running: none is recorded for X after agent_completed(X) has returned
\* and before the next agent_started(X).
C39_IssueOnlyWhileRunning ==
    [][\A i \in 1..Len(NewIssues) :
          NewIssues[i].issue_type \in {ISSUE_TIMEOUT, ISSUE_NO_PROGRESS}
          => NewIssues[i].agent_name \in ItemKeys(agent_start_times)]_vars

(***************************************************************************)
(* The supervisor with stuck detection                                     *)
(***************************************************************************)
\* the call at position i is followed by a call of `op` for the same name
FollowedBy(i, op) ==
    \E j \in (i + 1)..Len(notifications) :
        /\ notifications[j].op = op
        /\ notifications[j].name = notifications[i].name

\* C40: every agent_started(X) that execute_node makes is followed by
\* agent_completed(X) before execute_node returns, and every workflow_started
\* by workflow_completed before run_workflow returns, whether the wrapped
\* method returned or raised; while the run goes on its workflow is tracked,
\* and once run_workflow has returned or raised the detector tracks no step
\* and no workflow of the run.
C40_TrackingReleased ==
    /\ \A i \in 1..Len(notifications) :
          notifications[i].op = "agent_started" => FollowedBy(i, "agent_completed")
    /\ ItemKeys(agent_start_times) = {}
    /\ ItemKeys(agent_last_progress) = {}
    /\ ItemKeys(agent_iteration_counts) = {}
    /\ wpc = "for"
       => /\ notifications # <<>>
          /\ notifications[1].op = "workflow_started"
          /\ ItemKeys(workflow_tracking) = {notifications[1].name}
    /\ wpc \in {"returned", "raised"}
       => /\ notifications # <<>>
          /\ notifications[1].op = "workflow_started"
          /\ FollowedBy(1, "workflow_completed")
          /\ notifications[Len(notifications)].op = "workflow_completed"
          /\ ItemKeys(workflow_tracking) = {}

\* a run has returned in which execute_node returned for a node and raised
\* for another, and nothing is tracked
C40_Witness ==
    /\ wpc = "returned"
    /\ \E i \in 1..Len(notifications) :
          /\ notifications[i].op = "agent_progress"
          /\ notifications[i].name = "analysis"
    /\ \E i \in 1..(Len(notifications) - 2) :
          /\ notifications[i].op = "agent_started"
          /\ notifications[i].name = "missing"
          /\ notifications[i + 1].op = "agent_completed"
          /\ notifications[i + 2].op = "agent_completed"
    /\ notifications[Len(notifications)] = Notification("workflow_completed", "workflow1")
    /\ ItemKeys(workflow_tracking) = {}
    /\ ItemKeys(agent_start_times) = {}

====
